---- MODULE Spec2Model ----
(***************************************************************************)
(* Cross-chain order relay: the hub ledger (contracts/OrderProcessor.sol), *)
(* the spoke executor (bun-executor-listener/executor.ts), the hub         *)
(* listener (bun-executor-listener/listener.ts) and the relay scripts      *)
(* (scripts/completeOrder.js, scripts/openOrder.js).                       *)
(*                                                                         *)
(* Words (bytes32, address, uintN) are modelled as naturals; the zero word *)
(* is 0.  A proof is modelled by what IPolymerProver.validateEvent returns *)
(* for it: whether it validates, the topics (one word per 32 bytes) and    *)
(* the unindexed data (one word per ABI head slot).                        *)
(***************************************************************************)
EXTENDS Integers, Sequences, FiniteSets, TLC

VARIABLES
    \* ---- OrderProcessor.sol (hub ledger) ----
    orders,               \* mapping(bytes32 => OrderInfo)
    authorizedContracts,  \* mapping(uint32 => mapping(address => bool))
    emitted,              \* the contract's event log, in emission order
    lastCall,             \* the last external call and how it ended
    \* ---- the chains, as the pollers see them ----
    program,              \* which process runs: "ledger", "executor", "listener", "script"
    startHeight,          \* block number of each chain when the process started
    chainLogs,            \* the logs the watched contracts emit in this run
    height,               \* current block number of each chain
    ticks,                \* the async polling calls in progress
    coverage,             \* history, per chain: the first watermark and the
                          \* blocks of the log fetches that resolved
    \* ---- executor.ts ----
    processedTxs,                 \* Set<string> of transaction hashes
    pendingOrderIdsFromUnichain,  \* Set<string> of order ids
    lastUnichainBlock,
    lastBaseBlock,
    relayCalls,           \* the calls of callExecutorAPI, in call order
    \* ---- listener.ts ----
    lastPolledBlock,
    processedEventIds,    \* Set<string> of "txHash:logIndex"
    delivered,            \* the events the last batch handed to processHubEvent
    handled,              \* the hub events processHubEvent logged, in order
    listenerPc,           \* where startHubListener stands
    intervals,            \* number of setInterval timers scheduled
    retries,              \* number of setTimeout(startHubListener) timers scheduled
    \* ---- scripts/completeOrder.js, scripts/openOrder.js, requestProof ----
    script,               \* which relay script runs, "none" if none
    PRIVATE_KEY,          \* whether process.env.PRIVATE_KEY is set
    scriptPc,             \* where main() stands
    proofRequest,         \* the response of log_requestProof
    jobId,                \* proofRequest.data.result
    attempts,
    proofResponse,        \* the last response of log_queryProof
    oracleCalls,          \* the posts to POLYMER_API_URL, in call order
    hubCalls,             \* the calls to contracts of the hub chain, in call order
    exit                  \* how the process ended: exit code and error message

ledgerVars == <<orders, authorizedContracts, emitted, lastCall>>

chainVars == <<program, startHeight, chainLogs, height>>

executorVars ==
    <<processedTxs, pendingOrderIdsFromUnichain, lastUnichainBlock, lastBaseBlock,
      relayCalls>>

listenerVars ==
    <<lastPolledBlock, processedEventIds, delivered, handled, listenerPc, intervals,
      retries>>

scriptVars ==
    <<script, PRIVATE_KEY, scriptPc, proofRequest, jobId, attempts, proofResponse, oracleCalls,
      hubCalls, exit>>

vars == <<ledgerVars, chainVars, ticks, coverage, executorVars, listenerVars, scriptVars>>

pollerVars == <<chainVars, ticks, coverage, executorVars, listenerVars, scriptVars>>

(***************************************************************************)
(* Input domains of the ledger                                             *)
(***************************************************************************)

\* keccak256("OrderCreated(bytes32,bytes4,uint32,...)"), as a distinct word
OrderCreatedSelector == 1001

\* keccak256("Confirmation(bytes32,address,uint256,address,address,bytes32,uint256)")
ConfirmationSelector == 1002

\* topic0 of some other event
OtherSelector == 1003

\* bytes32(0) / address(0) / 0
ZeroWord == 0

\* order ids 0xAA and 0xBB
Ids == {170, 187}

\* destination identifiers: "bast" (0x62617374) and "opti" (0x6f707469)
Destinations == {1650553716, 1869640809}

\* unindexed data of OrderCreated:
\* <<asset, targetAccount, amount, rewardAsset, insurance, maxReward, nonce,
\*   sourceAccount, orderTimestamp>>; the two payloads differ in every field
CreatedPayloads ==
    { <<1, 21, 100, 31, 5, 9, 1, 41, 10>>,
      <<2, 22, 200, 32, 6, 8, 2, 42, 20>> }

\* unindexed data of Confirmation: <<amount, asset, confirmationId, timestamp>>
ConfirmationPayloads ==
    { <<100, 51, 61, 30>>, <<100, 52, 62, 40>>,
      <<200, 51, 61, 30>>, <<200, 52, 62, 40>>, <<0, 51, 61, 30>> }

\* chain ids and emitting contracts a proof may come from
ChainIds == {1301, 84532}

SourceContracts == {91}

MkProof(valid, chainId, topics, data) ==
    [valid |-> valid, chainId |-> chainId, emittingContract |-> 91,
     topics |-> topics, data |-> data]

\* proofs of genuine OrderCreated events
CreationProofs ==
    { MkProof(TRUE, 1301, <<OrderCreatedSelector, id, dest>>, d) :
        id \in Ids, dest \in Destinations, d \in CreatedPayloads }

\* proofs of genuine Confirmation events: topics <<sig, id, target, sender>>
ConfirmationProofs ==
    { MkProof(TRUE, 84532, <<ConfirmationSelector, id, 71, 81>>, d) :
        id \in Ids, d \in ConfirmationPayloads }

\* proofs the prover rejects, proofs of other events, truncated topics or data
OddProofs ==
    { MkProof(FALSE, 1301, <<>>, <<>>),
      MkProof(TRUE, 1301, <<OrderCreatedSelector, 170>>, <<1, 21, 100, 31, 5, 9, 1, 41, 10>>),
      MkProof(TRUE, 84532, <<ConfirmationSelector, 170, 71>>, <<100, 51, 61, 30>>),
      MkProof(TRUE, 1301, <<OtherSelector, 170, 1650553716, 81>>, <<1, 21, 100, 31, 5, 9, 1, 41, 10>>),
      MkProof(TRUE, 84532, <<OtherSelector, 170, 71, 81>>, <<100, 51, 61, 30>>),
      MkProof(TRUE, 1301, <<OrderCreatedSelector, 170, 1650553716>>, <<100, 51, 61, 30>>),
      MkProof(TRUE, 84532, <<ConfirmationSelector, 170, 71, 81>>, <<>>),
      MkProof(TRUE, 84532, <<ConfirmationSelector, 170, 71, 81>>, <<100, 21, 100, 31, 5, 9, 1, 41, 10>>) }

Proofs == CreationProofs \cup ConfirmationProofs \cup OddProofs

\* every word that can stand in the id position of a proof
OrderKeys == Ids

(***************************************************************************)
(* The chains and the polling calls                                        *)
(***************************************************************************)

\* the chains: Unichain Sepolia (1301), Base Sepolia (84532), t3rn hub (334)
Chains == {"unichain", "base", "hub"}

\* block number of the chains when the executor starts
StartHeight == 10

\* blocks mined on each chain while the process runs
MaxMined == 2

\* polling calls that may be in progress at the same time
MaxTicks == 2

\* failed attempts of startHubListener in one run
MaxRetries == 2

TickIds == 1..MaxTicks

\* an async polling call that is not running
IdleTick ==
    [pc |-> "idle", chain |-> "none", lastProcessedBlock |-> 0, currentBlock |-> 0,
     logs |-> <<>>, i |-> 0, call |-> 0]

\* proofResponse before the first response: undefined
NoResponse == [result |-> FALSE, status |-> "none", proof |-> <<>>]

\* proofRequest before the request was answered
NoRequest == [threw |-> FALSE, status |-> 0, data |-> FALSE, result |-> 0]

\* the process has not ended
Running == [code |-> -1, error |-> "none"]

\* no relay script runs
ScriptOff ==
    /\ script = "none"
    /\ PRIVATE_KEY = FALSE
    /\ scriptPc = "off"
    /\ proofRequest = NoRequest
    /\ jobId = 0
    /\ attempts = 0
    /\ proofResponse = NoResponse
    /\ oracleCalls = <<>>
    /\ hubCalls = <<>>
    /\ exit = Running

(***************************************************************************)
(* OrderProcessor.sol                                                      *)
(***************************************************************************)

\* the value of a mapping slot never written
EmptyOrder ==
    [state |-> "NONEXISTENT", sourceAccount |-> ZeroWord, targetAccount |-> ZeroWord,
     amount |-> 0, rewardAsset |-> ZeroWord, confirmationId |-> ZeroWord,
     timestamp |-> 0, nonce |-> 0, networkId |-> ZeroWord]

NoCall == [method |-> "none", result |-> "none"]

\* topics.length in bytes
topicsLength(proof) == 32 * Len(proof.topics)

\* require(topics.length >= 96) in openOrder
openTopicsLongEnough(proof) == topicsLength(proof) >= 96

\* require(topics.length >= 128) in orderCompleted
completedTopicsLongEnough(proof) == topicsLength(proof) >= 128

\* require(topicsArray[0] == expectedSelector) in openOrder
isOrderCreatedSelector(topic0) == topic0 = OrderCreatedSelector

\* bug: the event signature of the confirmation proof is not compared
isConfirmationSelector_unchecked(topic0) == topic0 = topic0

\* require(topicsArray[0] == expectedSelector) in orderCompleted
isConfirmationSelector(topic0) == topic0 = ConfirmationSelector

\* bug: only an OPEN order blocks a second openOrder
orderIsNonexistent_notOpen(id) == orders[id].state # "OPEN"

\* require(orders[id].state == OrderState.NONEXISTENT)
orderIsNonexistent(id) == orders[id].state = "NONEXISTENT"

\* bug: any existing order, COMPLETED included, may be completed
orderIsOpen_exists(id) == orders[id].state # "NONEXISTENT"

\* require(orders[id].state == OrderState.OPEN)
orderIsOpen(id) == orders[id].state = "OPEN"

\* bug: the amount of the confirmation is not compared with the stored one
amountMatches_unchecked(id, amount) == orders[id].amount = orders[id].amount

\* require(order.amount == amount)
amountMatches(id, amount) == orders[id].amount = amount

\* abi.decode(unindexedData, (uint32, bytes32, uint256, address, uint256,
\* uint256, uint32, address, uint256)) reverts on data shorter than 9 words
createdDataDecodes(data) == Len(data) >= 9

\* abi.decode(unindexedData, (uint256, address, bytes32, uint256))
confirmationDataDecodes(data) == Len(data) >= 4

\* keccak256(abi.encode(keccak256(abi.encode(requester, nonce, networkId)),
\* bytes32(0))), as a word that depends on all three
generateIdFull(requester, nonce, networkId) ==
    (((requester * 10007 + nonce * 101 + networkId) % (2 ^ 24)) * 31 + ZeroWord)
        % (2 ^ 24)

\* keccak256(abi.encode(id, target, amount, asset, sender)), as a word that
\* depends on all five
generateConfirmationId(id, target, amount, asset, sender) ==
    (id * 1000003 + target * 10007 + amount * 101 + asset * 13 + sender) % (2 ^ 30)

\* bug: source and target account change places
newOrderInfo_swapsAccounts(destination, data) ==
    [state |-> "OPEN", sourceAccount |-> data[2], targetAccount |-> data[8],
     amount |-> data[3], rewardAsset |-> data[4], confirmationId |-> ZeroWord,
     timestamp |-> data[9], nonce |-> data[7], networkId |-> destination]

\* the OrderInfo written by openOrder
newOrderInfo(destination, data) ==
    [state |-> "OPEN", sourceAccount |-> data[8], targetAccount |-> data[2],
     amount |-> data[3], rewardAsset |-> data[4], confirmationId |-> ZeroWord,
     timestamp |-> data[9], nonce |-> data[7], networkId |-> destination]

\* bug: completion also overwrites rewardAsset with the confirmation's asset
completedOrderInfo_overwrites(order, data) ==
    [order EXCEPT !.state = "COMPLETED", !.confirmationId = data[3],
                  !.timestamp = data[4], !.rewardAsset = data[2]]

\* bug: the confirmation is recorded but the state is left as it was
completedOrderInfo_keepsState(order, data) ==
    [order EXCEPT !.confirmationId = data[3], !.timestamp = data[4]]

\* the three storage writes of orderCompleted
completedOrderInfo(order, data) ==
    [order EXCEPT !.state = "COMPLETED", !.confirmationId = data[3],
                  !.timestamp = data[4]]

OrderOpenedEvent(id, destination, data) ==
    [name |-> "OrderOpened", id |-> id, destination |-> destination,
     asset |-> data[1], targetAccount |-> data[2], amount |-> data[3],
     rewardAsset |-> data[4], insurance |-> data[5], maxReward |-> data[6],
     nonce |-> data[7], sourceAccount |-> data[8], orderTimestamp |-> data[9]]

OrderCompletedEvent(id, target, data) ==
    [name |-> "OrderCompleted", id |-> id, target |-> target,
     confirmationId |-> data[3], amount |-> data[1], asset |-> data[2],
     timestamp |-> data[4]]

\* bug: the reward asset is the asset named by the confirmation
ReclaimReadyEvent_fromProof(id, order, data) ==
    [name |-> "ReclaimReady", id |-> id, sourceAccount |-> order.sourceAccount,
     rewardAsset |-> data[2], timestamp |-> data[4]]

ReclaimReadyEvent(id, order, data) ==
    [name |-> "ReclaimReady", id |-> id, sourceAccount |-> order.sourceAccount,
     rewardAsset |-> order.rewardAsset, timestamp |-> data[4]]

\* the revert reason of openOrder(proof) in the current state, "ok" if none
openOrderOutcome(proof) ==
    IF ~proof.valid THEN "validateEvent reverted"
    ELSE IF ~openTopicsLongEnough(proof) THEN "Invalid topics length"
    ELSE IF ~isOrderCreatedSelector(proof.topics[1]) THEN "Invalid event signature"
    ELSE IF ~orderIsNonexistent(proof.topics[2]) THEN "Order already exists"
    ELSE IF ~createdDataDecodes(proof.data) THEN "abi.decode reverted"
    ELSE "ok"

\* the revert reason of orderCompleted(proof) in the current state, "ok" if none
orderCompletedOutcome(proof) ==
    IF ~proof.valid THEN "validateEvent reverted"
    ELSE IF ~completedTopicsLongEnough(proof) THEN "Invalid topics length"
    ELSE IF ~isConfirmationSelector(proof.topics[1]) THEN "Invalid event signature"
    ELSE IF ~orderIsOpen(proof.topics[2]) THEN "Order not in open state"
    ELSE IF ~confirmationDataDecodes(proof.data) THEN "abi.decode reverted"
    ELSE IF ~amountMatches(proof.topics[2], proof.data[1])
         THEN "Amount mismatch between order and confirmation"
    ELSE "ok"

\* the body of openOrder(proof): the storage write and the event, or a revert
openOrderBody(proof) ==
    LET outcome == openOrderOutcome(proof) IN
    /\ lastCall' = [method |-> "openOrder", result |-> outcome]
    /\ IF outcome = "ok"
       THEN LET id == proof.topics[2]
                destination == proof.topics[3]
            IN /\ orders' = [orders EXCEPT ![id] = newOrderInfo(destination, proof.data)]
               /\ emitted' = Append(emitted, OrderOpenedEvent(id, destination, proof.data))
       ELSE UNCHANGED <<orders, emitted>>

\* function openOrder(bytes calldata proof) external
openOrder(proof) ==
    /\ openOrderBody(proof)
    /\ UNCHANGED <<authorizedContracts, pollerVars>>

\* bug: the state is written before the amount check, and the failed check
\* returns instead of reverting
orderCompleted_partialWrite(proof) ==
    LET outcome == orderCompletedOutcome(proof) IN
    /\ lastCall' = [method |-> "orderCompleted", result |-> outcome]
    /\ IF outcome = "ok"
       THEN LET id == proof.topics[2]
                order == completedOrderInfo(orders[id], proof.data)
            IN /\ orders' = [orders EXCEPT ![id] = order]
               /\ emitted' = emitted \o <<OrderCompletedEvent(id, proof.topics[3], proof.data),
                                          ReclaimReadyEvent(id, order, proof.data)>>
       ELSE IF outcome = "Amount mismatch between order and confirmation"
       THEN /\ orders' = [orders EXCEPT ![proof.topics[2]].state = "COMPLETED"]
            /\ UNCHANGED emitted
       ELSE UNCHANGED <<orders, emitted>>
    /\ UNCHANGED <<authorizedContracts, pollerVars>>

\* bug: the completion is written to every order that is OPEN
orderCompletedBody_everyOpenOrder(proof) ==
    LET outcome == orderCompletedOutcome(proof) IN
    /\ lastCall' = [method |-> "orderCompleted", result |-> outcome]
    /\ IF outcome = "ok"
       THEN LET id == proof.topics[2]
                order == completedOrderInfo(orders[id], proof.data)
            IN /\ orders' = [k \in OrderKeys |->
                                 IF orders[k].state = "OPEN"
                                 THEN completedOrderInfo(orders[k], proof.data)
                                 ELSE orders[k]]
               /\ emitted' = emitted \o <<OrderCompletedEvent(id, proof.topics[3], proof.data),
                                          ReclaimReadyEvent(id, order, proof.data)>>
       ELSE UNCHANGED <<orders, emitted>>

\* the body of orderCompleted(proof): the storage writes and the two
\* events, or a revert
orderCompletedBody(proof) ==
    LET outcome == orderCompletedOutcome(proof) IN
    /\ lastCall' = [method |-> "orderCompleted", result |-> outcome]
    /\ IF outcome = "ok"
       THEN LET id == proof.topics[2]
                target == proof.topics[3]
                order == completedOrderInfo(orders[id], proof.data)
            IN /\ orders' = [orders EXCEPT ![id] = order]
               /\ emitted' = emitted \o <<OrderCompletedEvent(id, target, proof.data),
                                          ReclaimReadyEvent(id, order, proof.data)>>
       ELSE UNCHANGED <<orders, emitted>>

\* function orderCompleted(bytes calldata proof) external
orderCompleted(proof) ==
    /\ orderCompletedBody(proof)
    /\ UNCHANGED <<authorizedContracts, pollerVars>>

\* function authorizeSourceContract(uint32, address, bool) external
authorizeSourceContract(chainId, contractAddress, authorized) ==
    /\ authorizedContracts' =
           [authorizedContracts EXCEPT ![chainId][contractAddress] = authorized]
    /\ lastCall' = [method |-> "authorizeSourceContract", result |-> "ok"]
    /\ UNCHANGED <<orders, emitted, pollerVars>>

isOrderOpen(id) == orders[id].state = "OPEN"

isOrderCompleted(id) == orders[id].state = "COMPLETED"

getOrderInfo(id) ==
    <<orders[id].state, orders[id].sourceAccount, orders[id].targetAccount,
      orders[id].amount, orders[id].rewardAsset, orders[id].confirmationId,
      orders[id].timestamp, orders[id].nonce, orders[id].networkId>>

\* a call of one of the view functions: reads, writes nothing
readOnlyQuery(id) ==
    /\ getOrderInfo(id)[1] \in {"NONEXISTENT", "OPEN", "COMPLETED"}
    /\ isOrderOpen(id) \in BOOLEAN /\ isOrderCompleted(id) \in BOOLEAN
    /\ lastCall' = [method |-> "query", result |-> "ok"]
    /\ UNCHANGED <<orders, authorizedContracts, emitted, pollerVars>>

\* the contract after its constructor
LedgerDeployed ==
    /\ orders = [id \in OrderKeys |-> EmptyOrder]
    /\ authorizedContracts = [c \in ChainIds |-> [a \in SourceContracts |-> FALSE]]
    /\ emitted = <<>>
    /\ lastCall = NoCall

\* the ledger alone: no poller process runs
InitLedger ==
    /\ LedgerDeployed
    /\ program = "ledger"
    /\ startHeight = [c \in Chains |-> StartHeight]
    /\ chainLogs = {}
    /\ height = startHeight
    /\ ticks = [t \in TickIds |-> IdleTick]
    /\ coverage = [c \in Chains |-> [initial |-> -1, fetched |-> {}]]
    /\ delivered = <<>>
    /\ processedTxs = {}
    /\ pendingOrderIdsFromUnichain = {}
    /\ lastUnichainBlock = 0
    /\ lastBaseBlock = 0
    /\ relayCalls = <<>>
    /\ lastPolledBlock = -1
    /\ processedEventIds = {}
    /\ handled = <<>>
    /\ listenerPc = "off"
    /\ intervals = 0
    /\ retries = 0
    /\ ScriptOff

OpenOrderCall == \E proof \in Proofs : openOrder(proof)

OrderCompletedCall == \E proof \in Proofs : orderCompleted(proof)

AuthorizeCall ==
    \E c \in ChainIds, a \in SourceContracts, b \in BOOLEAN :
        authorizeSourceContract(c, a, b)

QueryCall == \E id \in OrderKeys : readOnlyQuery(id)

NextLedger ==
    \/ OpenOrderCall
    \/ OrderCompletedCall
    \/ AuthorizeCall
    \/ QueryCall

SpecLedger == InitLedger /\ [][NextLedger]_vars

(***************************************************************************)
(* The spoke chains' logs                                                  *)
(***************************************************************************)

\* the bytes4 prefix "bast" the executor expects as destination: 0x62617374
expectedBaseDestinationHexPrefix == 1650553716

\* A log of a watched contract: blockNumber is startHeight + offset.
MkLog(chain, tx, offset, index, id, destination) ==
    [chain |-> chain, tx |-> tx, offset |-> offset, index |-> index, id |-> id,
     destination |-> destination]

\* OrderCreated logs of the Unichain spoke contract: order 0xAA, a second
\* order 0xBB created by the same transaction, order 0xAA created again by
\* another transaction, and an order for another destination
uA == MkLog("unichain", "u1", 1, 0, 170, 1650553716)

uB == MkLog("unichain", "u1", 1, 1, 187, 1650553716)

uC == MkLog("unichain", "u2", 2, 0, 170, 1650553716)

uD == MkLog("unichain", "u3", 2, 1, 204, 1869640809)

\* Confirmation logs of the Base spoke contract: two for order 0xAA, one for
\* an order never created
bA == MkLog("base", "b1", 1, 0, 170, 0)

bB == MkLog("base", "b2", 2, 0, 170, 0)

bC == MkLog("base", "b3", 2, 1, 221, 0)

\* what the spoke contracts emit while the executor runs, one set per run
SpokeContents ==
    { {uA, uB, bA}, {uA, uC, bA}, {uA, bA, bB}, {uA, uD, bA, bC} }

\* OrderOpened / OrderCompleted / ReclaimReady logs of the hub contract: one
\* emitted long before the listener starts, one shortly before, and three
\* while it runs (two of them by the same transaction)
HubLogs ==
    { MkLog("hub", "h0", -200, 0, 170, 0),
      MkLog("hub", "h1", -1, 0, 170, 0),
      MkLog("hub", "h2", 1, 0, 170, 0),
      MkLog("hub", "h2", 1, 1, 170, 0),
      MkLog("hub", "h3", 2, 0, 187, 0) }

\* log.blockNumber
blockNumber(log) == startHeight[log.chain] + log.offset

\* provider.getLogs / contract.queryFilter: the logs of a chain in a block range
logsInRange(chain, fromBlock, toBlock) ==
    { l \in chainLogs : /\ l.chain = chain
                        /\ fromBlock <= blockNumber(l)
                        /\ blockNumber(l) <= toBlock }

\* every order in which a log source may return the logs of a set
Orderings(S) ==
    { q \in [1..Cardinality(S) -> S] : \A a, b \in 1..Cardinality(S) : a # b => q[a] # q[b] }

\* (blockNumber, logIndex) of a is not after that of b
NotAfter(a, b) ==
    \/ blockNumber(a) < blockNumber(b)
    \/ blockNumber(a) = blockNumber(b) /\ a.index <= b.index

\* a new block is mined on a chain
Mine(chain) ==
    /\ \/ program = "executor" /\ chain \in {"unichain", "base"}
       \/ program = "listener" /\ chain = "hub"
    /\ height[chain] < startHeight[chain] + MaxMined
    /\ height' = [height EXCEPT ![chain] = @ + 1]
    /\ UNCHANGED <<scriptVars, ledgerVars, coverage, program, startHeight, chainLogs, ticks,
                   executorVars, listenerVars>>

(***************************************************************************)
(* executor.ts                                                             *)
(***************************************************************************)

\* bug: the processed set is never consulted
alreadyProcessedTx_never(log, processed) == log.tx \in (processed \ {log.tx})

\* processedTxs.has(txHash)
alreadyProcessedTx(log, processed) == log.tx \in processed

\* bug: every destination is taken for Base
destinationIsBase_any(log) == log.destination = log.destination

\* rawDestinationHex.toLowerCase().startsWith(expectedBaseDestinationHexPrefix)
destinationIsBase(log) == log.destination = expectedBaseDestinationHexPrefix

\* processOrderCreatedEvent up to its await: the sets afterwards and whether
\* callExecutorAPI is called
orderCreatedSyncPart(log, processed, pending) ==
    IF alreadyProcessedTx(log, processed)
    THEN [relay |-> FALSE, processed |-> processed, pending |-> pending]
    ELSE IF ~destinationIsBase(log)
    THEN [relay |-> FALSE, processed |-> processed \cup {log.tx}, pending |-> pending]
    ELSE [relay |-> TRUE, processed |-> processed \cup {log.tx},
          pending |-> pending \cup {log.id}]

\* bug: the pending set is not consulted
confirmationSyncPart_noPendingCheck(log, processed, pending) ==
    IF alreadyProcessedTx(log, processed)
    THEN [relay |-> FALSE, processed |-> processed, pending |-> pending]
    ELSE [relay |-> TRUE, processed |-> processed \cup {log.tx}, pending |-> pending]

\* processConfirmationEvent up to its await
confirmationSyncPart(log, processed, pending) ==
    IF alreadyProcessedTx(log, processed)
    THEN [relay |-> FALSE, processed |-> processed, pending |-> pending]
    ELSE IF log.id \notin pending
    THEN [relay |-> FALSE, processed |-> processed \cup {log.tx}, pending |-> pending]
    ELSE [relay |-> TRUE, processed |-> processed \cup {log.tx}, pending |-> pending]

\* the processor pollForEvents was given for the chain
processorSyncPart(chain, log, processed, pending) ==
    IF chain = "unichain" THEN orderCreatedSyncPart(log, processed, pending)
    ELSE confirmationSyncPart(log, processed, pending)

\* destMethod of the relay call of each processor
destMethod(chain) == IF chain = "unichain" THEN "openOrder" ELSE "orderCompleted"

\* for (const log of logs) await processor(log), from position i on, up to
\* the first log whose processor awaits callExecutorAPI (awaiting) or to the
\* end of the batch
RECURSIVE runBatch(_, _, _, _, _)
runBatch(chain, logs, i, processed, pending) ==
    IF i > Len(logs)
    THEN [i |-> i, awaiting |-> FALSE, processed |-> processed, pending |-> pending]
    ELSE LET r == processorSyncPart(chain, logs[i], processed, pending) IN
         IF r.relay
         THEN [i |-> i, awaiting |-> TRUE, processed |-> r.processed,
               pending |-> r.pending]
         ELSE runBatch(chain, logs, i + 1, r.processed, r.pending)

\* bug: a Unichain poll that failed ends the callback (the error is not
\* caught inside pollForEvents)
pollReturns_throws(t, value) ==
    IF ticks[t].chain = "unichain" /\ value # ticks[t].lastProcessedBlock
    THEN /\ lastUnichainBlock' = value
         /\ UNCHANGED lastBaseBlock
         /\ ticks' = [ticks EXCEPT ![t] =
                [IdleTick EXCEPT !.pc = "getBlockNumber", !.chain = "base",
                                 !.lastProcessedBlock = lastBaseBlock]]
    ELSE /\ IF ticks[t].chain = "base"
            THEN lastBaseBlock' = value /\ UNCHANGED lastUnichainBlock
            ELSE UNCHANGED <<lastUnichainBlock, lastBaseBlock>>
         /\ ticks' = [ticks EXCEPT ![t] = IdleTick]

\* pollForEvents returns value: the interval callback stores it in the
\* watermark of the chain and, after Unichain, calls pollForEvents for Base
pollReturns(t, value) ==
    IF ticks[t].chain = "unichain"
    THEN /\ lastUnichainBlock' = value
         /\ UNCHANGED lastBaseBlock
         /\ ticks' = [ticks EXCEPT ![t] =
                [IdleTick EXCEPT !.pc = "getBlockNumber", !.chain = "base",
                                 !.lastProcessedBlock = lastBaseBlock]]
    ELSE /\ lastBaseBlock' = value
         /\ UNCHANGED lastUnichainBlock
         /\ ticks' = [ticks EXCEPT ![t] = IdleTick]

\* the loop of pollForEvents over logs from position i, then its return
continueBatch(t, logs, i, processed, pending, calls) ==
    LET chain == ticks[t].chain
        r == runBatch(chain, logs, i, processed, pending)
    IN /\ processedTxs' = r.processed
       /\ pendingOrderIdsFromUnichain' = r.pending
       /\ IF r.awaiting
          THEN /\ relayCalls' = Append(calls,
                      [log |-> logs[r.i], method |-> destMethod(chain),
                       outcome |-> "awaited"])
               /\ ticks' = [ticks EXCEPT ![t].pc = "relay", ![t].logs = logs,
                                         ![t].i = r.i, ![t].call = Len(calls) + 1]
               /\ UNCHANGED <<lastUnichainBlock, lastBaseBlock>>
          ELSE /\ relayCalls' = calls
               /\ pollReturns(t, ticks[t].currentBlock)

\* bug: the timer does not fire while an earlier callback is still running
startTick_afterPrevious(t) ==
    /\ program = "executor"
    /\ \A u \in TickIds : ticks[u].pc = "idle"
    /\ t = 1
    /\ ticks' = [ticks EXCEPT ![t] =
           [IdleTick EXCEPT !.pc = "getBlockNumber", !.chain = "unichain",
                            !.lastProcessedBlock = lastUnichainBlock]]
    /\ UNCHANGED <<scriptVars, ledgerVars, coverage, chainVars, executorVars, listenerVars>>

\* setInterval fires: the callback calls pollForEvents for Unichain with the
\* current lastUnichainBlock; it runs up to await provider.getBlockNumber()
startTick(t) ==
    /\ program = "executor"
    /\ ticks[t].pc = "idle"
    /\ \A u \in TickIds : u < t => ticks[u].pc # "idle"
    /\ ticks' = [ticks EXCEPT ![t] =
           [IdleTick EXCEPT !.pc = "getBlockNumber", !.chain = "unichain",
                            !.lastProcessedBlock = lastUnichainBlock]]
    /\ UNCHANGED <<scriptVars, ledgerVars, coverage, chainVars, executorVars, listenerVars>>

\* provider.getBlockNumber() resolves or throws
getBlockNumber(t) ==
    /\ program = "executor"
    /\ ticks[t].pc = "getBlockNumber"
    /\ \/ \* the RPC fails: catch, return lastProcessedBlock
          pollReturns(t, ticks[t].lastProcessedBlock)
       \/ LET currentBlock == height[ticks[t].chain] IN
          IF currentBlock <= ticks[t].lastProcessedBlock
          THEN pollReturns(t, ticks[t].lastProcessedBlock)
          ELSE /\ ticks' = [ticks EXCEPT ![t].pc = "getLogs",
                                         ![t].currentBlock = currentBlock]
               /\ UNCHANGED <<lastUnichainBlock, lastBaseBlock>>
    /\ UNCHANGED <<scriptVars, ledgerVars, coverage, chainVars, processedTxs,
                   pendingOrderIdsFromUnichain,
                   relayCalls, listenerVars>>

\* a log fetch of the chain for blocks from..to resolved
fetchResolved(chain, from, to) ==
    coverage' = [coverage EXCEPT ![chain].fetched = @ \cup (from..to)]

\* bug: the catch block returns currentBlock when the log fetch failed
getLogs_failureAdvances(t) ==
    /\ program = "executor"
    /\ ticks[t].pc = "getLogs"
    /\ \/ /\ pollReturns(t, ticks[t].currentBlock)
          /\ UNCHANGED <<processedTxs, pendingOrderIdsFromUnichain, relayCalls, coverage>>
       \/ /\ \E logs \in Orderings(logsInRange(ticks[t].chain,
                                               ticks[t].lastProcessedBlock + 1,
                                               ticks[t].currentBlock)) :
                 continueBatch(t, logs, 1, processedTxs, pendingOrderIdsFromUnichain,
                               relayCalls)
          /\ fetchResolved(ticks[t].chain, ticks[t].lastProcessedBlock + 1,
                           ticks[t].currentBlock)
    /\ UNCHANGED <<scriptVars, ledgerVars, chainVars, listenerVars>>

\* provider.getLogs(...) resolves, in the order the log source chose, or throws
getLogs(t) ==
    /\ program = "executor"
    /\ ticks[t].pc = "getLogs"
    /\ \/ /\ pollReturns(t, ticks[t].lastProcessedBlock)
          /\ UNCHANGED <<processedTxs, pendingOrderIdsFromUnichain, relayCalls, coverage>>
       \/ /\ \E logs \in Orderings(logsInRange(ticks[t].chain,
                                               ticks[t].lastProcessedBlock + 1,
                                               ticks[t].currentBlock)) :
                 continueBatch(t, logs, 1, processedTxs, pendingOrderIdsFromUnichain,
                               relayCalls)
          /\ fetchResolved(ticks[t].chain, ticks[t].lastProcessedBlock + 1,
                           ticks[t].currentBlock)
    /\ UNCHANGED <<scriptVars, ledgerVars, chainVars, listenerVars>>

\* callExecutorAPI returned with the outcome: processConfirmationEvent then
\* deletes the id from the pending set; the loop of pollForEvents goes on
relayEnds(t, outcome) ==
    LET log == ticks[t].logs[ticks[t].i]
        pending == IF ticks[t].chain = "base"
                   THEN pendingOrderIdsFromUnichain \ {log.id}
                   ELSE pendingOrderIdsFromUnichain
        calls == [relayCalls EXCEPT ![ticks[t].call].outcome = outcome]
    IN continueBatch(t, ticks[t].logs, ticks[t].i + 1, processedTxs, pending, calls)

\* callExecutorAPI returns: the response reported success ("accepted"), the
\* response reported a failed execution ("rejected"), or axios threw
\* ("error"); all three are logged and swallowed.
relayReturns(t) ==
    /\ program = "executor"
    /\ ticks[t].pc = "relay"
    /\ \E outcome \in {"accepted", "rejected", "error"} : relayEnds(t, outcome)
    /\ UNCHANGED <<scriptVars, ledgerVars, coverage, chainVars, listenerVars>>

\* startPolling: both watermarks are the block numbers at start
InitExecutor ==
    /\ LedgerDeployed
    /\ program = "executor"
    /\ startHeight = [c \in Chains |-> StartHeight]
    /\ chainLogs \in SpokeContents
    /\ height = startHeight
    /\ ticks = [t \in TickIds |-> IdleTick]
    /\ coverage = [c \in Chains |-> [initial |-> height[c], fetched |-> {}]]
    /\ delivered = <<>>
    /\ processedTxs = {}
    /\ pendingOrderIdsFromUnichain = {}
    /\ lastUnichainBlock = height["unichain"]
    /\ lastBaseBlock = height["base"]
    /\ relayCalls = <<>>
    /\ lastPolledBlock = -1
    /\ processedEventIds = {}
    /\ handled = <<>>
    /\ listenerPc = "off"
    /\ intervals = 0
    /\ retries = 0
    /\ ScriptOff

NextExecutor ==
    \/ \E c \in {"unichain", "base"} : Mine(c)
    \/ \E t \in TickIds : startTick(t)
    \/ \E t \in TickIds : getBlockNumber(t)
    \/ \E t \in TickIds : getLogs(t)
    \/ \E t \in TickIds : relayReturns(t)

SpecExecutor == InitExecutor /\ [][NextExecutor]_vars

\* the executor with its scheduling: the interval timer keeps firing
\* (setInterval, every POLLING_INTERVAL ms) and every awaited call
\* (getBlockNumber, getLogs, the axios post) resolves or throws in the end
FairExecutor ==
    /\ WF_vars(\E t \in TickIds : startTick(t))
    /\ \A t \in TickIds : WF_vars(getBlockNumber(t))
    /\ \A t \in TickIds : WF_vars(getLogs(t))
    /\ \A t \in TickIds : WF_vars(relayReturns(t))

SpecExecutorFair == SpecExecutor /\ FairExecutor

\* provider.getBlockNumber() of the chain's node resolves
getBlockNumberResolves(t, chain) ==
    /\ ticks[t].chain = chain
    /\ getBlockNumber(t)
    /\ height[chain] > ticks[t].lastProcessedBlock => ticks'[t].pc = "getLogs"

\* provider.getLogs(...) of the chain's node resolves: the batch is
\* processed up to the first relay call, or to its end with the watermark
\* set to currentBlock
getLogsResolves(t, chain) ==
    /\ ticks[t].chain = chain
    /\ getLogs(t)
    /\ \/ ticks'[t].pc = "relay"
       \/ chain = "unichain" /\ lastUnichainBlock' = ticks[t].currentBlock
       \/ chain = "base" /\ lastBaseBlock' = ticks[t].currentBlock

\* the executor when the relay call awaited by the first interval callback
\* may never return: the timer keeps firing and, in the callbacks that
\* follow, neither RPC node fails forever and the relay calls return
StalledRelay ==
    /\ WF_vars(\E t \in TickIds : startTick(t))
    /\ \A t \in TickIds \ {1}, c \in {"unichain", "base"} :
          SF_vars(getBlockNumberResolves(t, c))
    /\ \A t \in TickIds \ {1}, c \in {"unichain", "base"} :
          SF_vars(getLogsResolves(t, c))
    /\ \A t \in TickIds \ {1} : WF_vars(relayReturns(t))

SpecExecutorStalled == SpecExecutor /\ StalledRelay

\* what the events of the run carry besides id and destination: the data of
\* the OrderCreated events and of the Confirmation events (amount 100 both)
createdEventData == <<1, 21, 100, 31, 5, 9, 1, 41, 10>>

confirmationEventData == <<100, 51, 61, 30>>

\* the proof the executor API obtains for the log named in the request
\* (srcChainId, blockNumber, txIndex, logIndex)
proofOfLog(log) ==
    IF log.chain = "unichain"
    THEN MkProof(TRUE, 1301, <<OrderCreatedSelector, log.id, log.destination>>,
                 createdEventData)
    ELSE MkProof(TRUE, 84532, <<ConfirmationSelector, log.id, 71, 81>>,
                 confirmationEventData)

\* callExecutorAPI returns when neither the oracle nor the hub node fails:
\* the API proved the log and sent destMethod(proof) to the hub contract,
\* which executed it or reverted; the response reports which
relayExecutes(t) ==
    /\ program = "executor"
    /\ ticks[t].pc = "relay"
    /\ LET proof == proofOfLog(ticks[t].logs[ticks[t].i]) IN
       IF ticks[t].chain = "unichain"
       THEN /\ openOrderBody(proof)
            /\ relayEnds(t, IF openOrderOutcome(proof) = "ok"
                            THEN "accepted" ELSE "rejected")
       ELSE /\ orderCompletedBody(proof)
            /\ relayEnds(t, IF orderCompletedOutcome(proof) = "ok"
                            THEN "accepted" ELSE "rejected")
    /\ UNCHANGED <<scriptVars, authorizedContracts, coverage, chainVars, listenerVars>>

\* the executor together with the hub contract its relay calls reach, when
\* nothing fails: the RPC nodes answer every call
NextEndToEnd ==
    \/ \E c \in {"unichain", "base"} : Mine(c)
    \/ \E t \in TickIds : startTick(t)
    \/ \E t \in TickIds, c \in {"unichain", "base"} : getBlockNumberResolves(t, c)
    \/ \E t \in TickIds, c \in {"unichain", "base"} : getLogsResolves(t, c)
    \/ \E t \in TickIds : relayExecutes(t)

\* the timer keeps firing and every awaited call returns
FairEndToEnd ==
    /\ WF_vars(\E t \in TickIds : startTick(t))
    /\ \A t \in TickIds, c \in {"unichain", "base"} :
          WF_vars(getBlockNumberResolves(t, c))
    /\ \A t \in TickIds, c \in {"unichain", "base"} :
          WF_vars(getLogsResolves(t, c))
    /\ \A t \in TickIds : WF_vars(relayExecutes(t))

SpecEndToEnd == InitExecutor /\ [][NextEndToEnd]_vars /\ FairEndToEnd

(***************************************************************************)
(* listener.ts                                                             *)
(***************************************************************************)

\* number of blocks to look back on initial start or restart
CATCH_UP_BLOCK_COUNT == 100

\* hub block numbers at which a listener may be started
HubStartHeights == {StartHeight, 1000}

\* `${event.transactionHash}:${event.index}`
eventUniqueId(event) == <<event.tx, event.index>>

\* processedEventIds.has(eventUniqueId)
alreadyProcessedEvent(event, processed) == eventUniqueId(event) \in processed

\* the comparator of allEvents.sort: a sorts before b
sortsBefore(a, b) ==
    IF blockNumber(a) # blockNumber(b)
    THEN blockNumber(a) - blockNumber(b) < 0
    ELSE a.index - b.index < 0

\* insert event e into the sorted sequence q, after the events it does not
\* sort before
RECURSIVE insertSorted(_, _)
insertSorted(e, q) ==
    IF q = <<>> THEN <<e>>
    ELSE IF sortsBefore(e, Head(q)) THEN <<e>> \o q
    ELSE <<Head(q)>> \o insertSorted(e, Tail(q))

\* allEvents.sort((a, b) => ...)
RECURSIVE sortEvents(_)
sortEvents(q) ==
    IF q = <<>> THEN <<>> ELSE insertSorted(Head(q), sortEvents(Tail(q)))

\* for (const event of allEvents) processHubEvent(event): the events logged
\* and the processed set afterwards
RECURSIVE processHubEvents(_, _, _)
processHubEvents(q, processed, log) ==
    IF q = <<>> THEN [processed |-> processed, handled |-> log]
    ELSE IF alreadyProcessedEvent(Head(q), processed)
    THEN processHubEvents(Tail(q), processed, log)
    ELSE processHubEvents(Tail(q), processed \cup {eventUniqueId(Head(q))},
                          Append(log, Head(q)))

\* Math.max(0, currentBlock - CATCH_UP_BLOCK_COUNT)
catchUpStart(currentBlock) ==
    IF currentBlock - CATCH_UP_BLOCK_COUNT > 0
    THEN currentBlock - CATCH_UP_BLOCK_COUNT ELSE 0

\* bug: setInterval is called at the end of every polling call
hubPollReturns_setsInterval(t) ==
    /\ ticks' = [ticks EXCEPT ![t] = IdleTick]
    /\ intervals' = intervals + 1
    /\ listenerPc' = IF listenerPc = "initialPoll" THEN "running" ELSE listenerPc

\* pollForHubEvents returns; when it was the initial poll awaited by
\* startHubListener, setInterval is called next
hubPollReturns(t) ==
    /\ ticks' = [ticks EXCEPT ![t] = IdleTick]
    /\ IF listenerPc = "initialPoll"
       THEN listenerPc' = "running" /\ intervals' = intervals + 1
       ELSE UNCHANGED <<listenerPc, intervals>>

\* the catch block of startHubListener: setTimeout(startHubListener, ...)
scheduleRetry ==
    /\ retries < MaxRetries
    /\ retries' = retries + 1
    /\ listenerPc' = "retryWait"

\* startHubListener: provider.getNetwork() resolves or throws; a throw
\* schedules a retry with setTimeout
listenerGetNetwork ==
    /\ program = "listener"
    /\ listenerPc = "start"
    /\ \/ listenerPc' = "getBlockNumber" /\ UNCHANGED retries
       \/ scheduleRetry
    /\ UNCHANGED <<scriptVars, ledgerVars, coverage, chainVars, ticks, executorVars,
                   lastPolledBlock, processedEventIds, delivered, handled, intervals>>

\* startHubListener: provider.getBlockNumber() resolves or throws; then
\* lastPolledBlock is set and pollForHubEvents() is called and awaited
listenerInitBlock ==
    /\ program = "listener"
    /\ listenerPc = "getBlockNumber"
    /\ \/ /\ scheduleRetry
          /\ UNCHANGED <<lastPolledBlock, ticks, coverage>>
       \/ /\ lastPolledBlock' = catchUpStart(height["hub"])
          /\ UNCHANGED retries
          /\ coverage' = [coverage EXCEPT !["hub"].initial = catchUpStart(height["hub"])]
          /\ listenerPc' = "initialPoll"
          /\ ticks' = [ticks EXCEPT ![1] =
                 [IdleTick EXCEPT !.pc = "getBlockNumber", !.chain = "hub"]]
    /\ UNCHANGED <<scriptVars, ledgerVars, chainVars, executorVars, processedEventIds,
                   delivered, handled, intervals>>

\* the retry timer fires: startHubListener runs again
listenerRetry ==
    /\ program = "listener"
    /\ listenerPc = "retryWait"
    /\ listenerPc' = "start"
    /\ UNCHANGED <<scriptVars, ledgerVars, coverage, chainVars, ticks, executorVars,
                   lastPolledBlock, processedEventIds, delivered, handled, intervals,
                   retries>>

\* the interval timer fires: pollForHubEvents runs up to its first await
hubStartTick(t) ==
    /\ program = "listener"
    /\ intervals >= 1
    /\ ticks[t].pc = "idle"
    /\ \A u \in TickIds : u < t => ticks[u].pc # "idle"
    /\ ticks' = [ticks EXCEPT ![t] =
           [IdleTick EXCEPT !.pc = "getBlockNumber", !.chain = "hub"]]
    /\ UNCHANGED <<scriptVars, ledgerVars, coverage, chainVars, executorVars, listenerVars>>

\* pollForHubEvents: provider.getBlockNumber() resolves or throws; the block
\* range is taken from lastPolledBlock as it is now
hubGetBlockNumber(t) ==
    /\ program = "listener"
    /\ ticks[t].chain = "hub"
    /\ ticks[t].pc = "getBlockNumber"
    /\ \/ /\ hubPollReturns(t)
          /\ UNCHANGED <<lastPolledBlock, coverage>>
       \/ LET currentBlock == height["hub"]
              last == IF lastPolledBlock = -1 THEN catchUpStart(currentBlock)
                      ELSE lastPolledBlock
          IN /\ lastPolledBlock' = last
             /\ coverage' = IF lastPolledBlock = -1
                            THEN [coverage EXCEPT !["hub"].initial = last]
                            ELSE coverage
             /\ IF currentBlock <= last
                THEN hubPollReturns(t)
                ELSE /\ ticks' = [ticks EXCEPT ![t].pc = "queryFilter",
                                               ![t].lastProcessedBlock = last,
                                               ![t].currentBlock = currentBlock]
                     /\ UNCHANGED <<listenerPc, intervals>>
    /\ UNCHANGED <<scriptVars, ledgerVars, chainVars, executorVars, processedEventIds,
                   delivered, handled, retries>>

\* pollForHubEvents: the three queryFilter calls resolve, in the order the
\* log source chose, or one throws; the events are sorted and processed and
\* lastPolledBlock becomes toBlock
hubQueryFilter(t) ==
    /\ program = "listener"
    /\ ticks[t].chain = "hub"
    /\ ticks[t].pc = "queryFilter"
    /\ \/ /\ hubPollReturns(t)
          /\ UNCHANGED <<lastPolledBlock, processedEventIds, delivered, handled, coverage>>
       \/ \E allEvents \in Orderings(logsInRange("hub", ticks[t].lastProcessedBlock + 1,
                                                 ticks[t].currentBlock)) :
             LET sorted == sortEvents(allEvents)
                 r == processHubEvents(sorted, processedEventIds, handled)
             IN /\ delivered' = sorted
                /\ processedEventIds' = r.processed
                /\ handled' = r.handled
                /\ lastPolledBlock' = ticks[t].currentBlock
                /\ fetchResolved("hub", ticks[t].lastProcessedBlock + 1,
                                 ticks[t].currentBlock)
                /\ hubPollReturns(t)
    /\ UNCHANGED <<scriptVars, ledgerVars, chainVars, executorVars, retries>>

\* listener.ts is started: startHubListener runs up to await getNetwork()
InitListener ==
    /\ LedgerDeployed
    /\ program = "listener"
    /\ \E h \in HubStartHeights : startHeight = [c \in Chains |-> h]
    /\ chainLogs = HubLogs
    /\ height = startHeight
    /\ ticks = [t \in TickIds |-> IdleTick]
    /\ coverage = [c \in Chains |-> [initial |-> -1, fetched |-> {}]]
    /\ processedTxs = {}
    /\ pendingOrderIdsFromUnichain = {}
    /\ lastUnichainBlock = 0
    /\ lastBaseBlock = 0
    /\ relayCalls = <<>>
    /\ lastPolledBlock = -1
    /\ processedEventIds = {}
    /\ delivered = <<>>
    /\ handled = <<>>
    /\ listenerPc = "start"
    /\ intervals = 0
    /\ retries = 0
    /\ ScriptOff

NextListener ==
    \/ Mine("hub")
    \/ listenerGetNetwork
    \/ listenerInitBlock
    \/ listenerRetry
    \/ \E t \in TickIds : hubStartTick(t)
    \/ \E t \in TickIds : hubGetBlockNumber(t)
    \/ \E t \in TickIds : hubQueryFilter(t)

SpecListener == InitListener /\ [][NextListener]_vars

\* either process: the executor or the hub listener
InitPollers == InitExecutor \/ InitListener

NextPollers == NextExecutor \/ NextListener

SpecPollers == InitPollers /\ [][NextPollers]_vars

(***************************************************************************)
(* The relay scripts: scripts/completeOrder.js, scripts/openOrder.js and   *)
(* the proof-request script.  The three share main() up to the validation  *)
(* of the proof; the first two then call the hub method.                   *)
(*                                                                         *)
(* A byte string is a sequence of 0..255, a base64 string a sequence of    *)
(* sextets 0..63 with 64 for the padding character, a hex string a         *)
(* sequence of nibbles 0..15 behind the prefix "0x".                       *)
(***************************************************************************)

Scripts == {"completeOrder", "openOrder", "requestProof"}

\* const maxAttempts = 30
maxAttempts == 30

\* the proofs the oracle may produce, as bytes
ProofBlobs == { <<222>>, <<1, 255>>, <<16, 32, 48>>, <<0, 170, 187, 204>> }

\* the job ids the oracle may hand out
JobIds == {501, 502}

\* the character '='
Base64Pad == 64

\* the base64 text of a byte string, as the oracle puts it in result.proof
RECURSIVE base64Encode(_)
base64Encode(b) ==
    IF Len(b) = 0 THEN <<>>
    ELSE IF Len(b) = 1
    THEN <<b[1] \div 4, (b[1] % 4) * 16, Base64Pad, Base64Pad>>
    ELSE IF Len(b) = 2
    THEN <<b[1] \div 4, (b[1] % 4) * 16 + (b[2] \div 16), (b[2] % 16) * 4, Base64Pad>>
    ELSE <<b[1] \div 4, (b[1] % 4) * 16 + (b[2] \div 16),
           (b[2] % 16) * 4 + (b[3] \div 64), b[3] % 64>>
         \o base64Encode(SubSeq(b, 4, Len(b)))

\* Buffer.from(text, "base64"): six bits per character, a byte out for
\* every eight bits gathered, up to the padding
RECURSIVE base64DecodeFrom(_, _, _)
base64DecodeFrom(text, acc, nbits) ==
    IF text = <<>> \/ Head(text) = Base64Pad THEN <<>>
    ELSE LET a == acc * 64 + Head(text)
             n == nbits + 6
         IN IF n >= 8
            THEN <<a \div (2 ^ (n - 8))>>
                 \o base64DecodeFrom(Tail(text), a % (2 ^ (n - 8)), n - 8)
            ELSE base64DecodeFrom(Tail(text), a, n)

\* buffer.toString("hex")
RECURSIVE toHex(_)
toHex(bytes) ==
    IF bytes = <<>> THEN <<>>
    ELSE <<Head(bytes) \div 16, Head(bytes) % 16>> \o toHex(Tail(bytes))

\* bug: the base64 text itself is written out in hex, undecoded
proofInHex_undecoded(proof) == [prefix |-> "0x", digits |-> toHex(proof)]

\* `0x${Buffer.from(proof, "base64").toString("hex")}`
proofInHex(proof) ==
    [prefix |-> "0x", digits |-> toHex(base64DecodeFrom(proof, 0, 0))]

\* the bytes a contract call carries for a hex string argument
RECURSIVE hexDigitsToBytes(_)
hexDigitsToBytes(digits) ==
    IF Len(digits) < 2 THEN <<>>
    ELSE <<digits[1] * 16 + digits[2]>> \o hexDigitsToBytes(SubSeq(digits, 3, Len(digits)))

\* the answers the oracle may give to log_requestProof: axios throws
\* (transport error, status outside 2xx), a 2xx status other than 200, no
\* body, no result, a job id
RequestOutcomes ==
    { [threw |-> TRUE, status |-> 0, data |-> FALSE, result |-> 0],
      [threw |-> FALSE, status |-> 204, data |-> TRUE, result |-> 501],
      [threw |-> FALSE, status |-> 200, data |-> FALSE, result |-> 0],
      [threw |-> FALSE, status |-> 200, data |-> TRUE, result |-> 0] }
    \cup { [threw |-> FALSE, status |-> 200, data |-> TRUE, result |-> j] : j \in JobIds }

\* the answers the oracle may give to log_queryProof: no result, a job
\* still running, a failed job, a finished job with an empty proof, a proof
QueryOutcomes ==
    { [result |-> FALSE, status |-> "none", proof |-> <<>>],
      [result |-> TRUE, status |-> "pending", proof |-> <<>>],
      [result |-> TRUE, status |-> "error", proof |-> <<>>],
      [result |-> TRUE, status |-> "complete", proof |-> <<>>] }
    \cup { [result |-> TRUE, status |-> "complete", proof |-> base64Encode(b)] :
             b \in ProofBlobs }

\* bug: the status of the response is not looked at
requestProofFails_anyStatus(r) == r.threw \/ ~r.data \/ r.result = 0

\* the request threw, or one of the three checks after it throws
requestProofFails(r) == r.threw \/ r.status # 200 \/ ~r.data \/ r.result = 0

\* proofResponse?.data?.result?.proof is truthy
hasProof(response) == response.result /\ response.proof # <<>>

\* bug: one attempt too many
loopContinues_oneMore(response, n) == ~hasProof(response) /\ n <= maxAttempts

\* the condition of the while loop
loopContinues(response, n) == ~hasProof(response) /\ n < maxAttempts

\* the method of OrderProcessor the script calls
hubMethod(s) == IF s = "openOrder" THEN "openOrder" ELSE "orderCompleted"

\* a call of a contract of the hub chain with its arguments
HubCall(contract, method, kind, args) ==
    [contract |-> contract, method |-> method, kind |-> kind, args |-> args,
     result |-> "awaited"]

\* bug: a failed call is issued again
afterHubCall_retries(kind, result) ==
    IF result = "reverted" THEN kind
    ELSE IF kind = "staticCall" THEN "estimateGas"
    ELSE IF kind = "estimateGas" THEN "send"
    ELSE "wait"

\* bug: the outcome of the static call is not awaited
afterHubCall_ignoresStaticCall(kind, result) ==
    IF kind = "staticCall" THEN "estimateGas"
    ELSE IF result = "reverted" THEN "done"
    ELSE IF kind = "estimateGas" THEN "send"
    ELSE "wait"

\* where main goes on after a call of the hub method: a throw is caught,
\* logged, and main runs to its end
afterHubCall(kind, result) ==
    IF result = "reverted" THEN "done"
    ELSE IF kind = "staticCall" THEN "estimateGas"
    ELSE IF kind = "estimateGas" THEN "send"
    ELSE "wait"

\* process.exit(1) in the catch of main
exitWithError(message) ==
    /\ scriptPc' = "exited"
    /\ exit' = [code |-> 1, error |-> message]

\* main returns after "Process complete."
processComplete ==
    /\ scriptPc' = "exited"
    /\ exit' = [code |-> 0, error |-> "none"]

\* main up to the post of log_requestProof: the API key is missing or the
\* transaction receipt is not found, or the request is posted
scriptStart ==
    /\ program = "script"
    /\ scriptPc = "start"
    /\ \/ /\ \E message \in {"Missing POLYMER_API_KEY in environment variables",
                             "Transaction receipt not found"} :
                exitWithError(message)
          /\ UNCHANGED oracleCalls
       \/ /\ oracleCalls' = Append(oracleCalls, [method |-> "log_requestProof", jobId |-> 0])
          /\ scriptPc' = "requestProof"
          /\ UNCHANGED exit
    /\ UNCHANGED <<script, PRIVATE_KEY, proofRequest, jobId, attempts, proofResponse, hubCalls>>
    /\ UNCHANGED <<ledgerVars, chainVars, ticks, coverage, executorVars, listenerVars>>

\* the post of log_requestProof resolves or throws; the checks after it
requestProofReturns ==
    /\ program = "script"
    /\ scriptPc = "requestProof"
    /\ \E r \in RequestOutcomes :
          /\ proofRequest' = r
          /\ IF requestProofFails(r)
             THEN /\ exitWithError("Failed to get proof from Polymer API")
                  /\ UNCHANGED jobId
             ELSE /\ jobId' = r.result
                  /\ scriptPc' = "polling"
                  /\ UNCHANGED exit
    /\ UNCHANGED <<script, PRIVATE_KEY, attempts, proofResponse, oracleCalls, hubCalls>>
    /\ UNCHANGED <<ledgerVars, chainVars, ticks, coverage, executorVars, listenerVars>>

\* one pass of the while loop: the timer, the post of log_queryProof, which
\* resolves or throws (proofResponse keeps its value then)
queryProof ==
    /\ program = "script"
    /\ scriptPc = "polling"
    /\ loopContinues(proofResponse, attempts)
    /\ attempts' = attempts + 1
    /\ oracleCalls' = Append(oracleCalls, [method |-> "log_queryProof", jobId |-> jobId])
    /\ \/ UNCHANGED proofResponse
       \/ \E r \in QueryOutcomes : proofResponse' = r
    /\ UNCHANGED <<script, PRIVATE_KEY, scriptPc, proofRequest, jobId, hubCalls, exit>>
    /\ UNCHANGED <<ledgerVars, chainVars, ticks, coverage, executorVars, listenerVars>>

\* after the loop: no proof throws; a proof is converted to hex and
\* validateEvent is called statically on the prover of the hub chain
proofReceived ==
    /\ program = "script"
    /\ scriptPc = "polling"
    /\ ~loopContinues(proofResponse, attempts)
    /\ IF ~hasProof(proofResponse)
       THEN /\ exitWithError("Failed to get proof after maximum attempts")
            /\ UNCHANGED hubCalls
       ELSE /\ hubCalls' = Append(hubCalls,
                   HubCall("prover", "validateEvent", "staticCall",
                           <<proofInHex(proofResponse.proof)>>))
            /\ scriptPc' = "validateEvent"
            /\ UNCHANGED exit
    /\ UNCHANGED <<script, PRIVATE_KEY, proofRequest, jobId, attempts, proofResponse, oracleCalls>>
    /\ UNCHANGED <<ledgerVars, chainVars, ticks, coverage, executorVars, listenerVars>>

\* hubCalls with the result of its last call
callEnded(result) == [hubCalls EXCEPT ![Len(hubCalls)].result = result]

\* validateEvent.staticCall resolves or throws.  After it the topics are
\* parsed and the data decoded, which may throw; the two relay scripts
\* then call the hub method statically.
validateEventReturns ==
    /\ program = "script"
    /\ scriptPc = "validateEvent"
    /\ \/ /\ hubCalls' = callEnded("reverted")
          /\ processComplete
       \/ /\ \E parsed \in BOOLEAN :
                IF parsed /\ script # "requestProof"
                THEN /\ hubCalls' = Append(callEnded("ok"),
                            HubCall("orderProcessor", hubMethod(script), "staticCall",
                                    <<proofInHex(proofResponse.proof)>>))
                     /\ scriptPc' = "staticCall"
                     /\ UNCHANGED exit
                ELSE /\ hubCalls' = callEnded("ok")
                     /\ processComplete
    /\ UNCHANGED <<script, PRIVATE_KEY, proofRequest, jobId, attempts, proofResponse, oracleCalls>>
    /\ UNCHANGED <<ledgerVars, chainVars, ticks, coverage, executorVars, listenerVars>>

\* the static call, the gas estimate or the sending of the transaction
\* resolves or throws; before the gas estimate PRIVATE_KEY may be missing
hubCallReturns ==
    /\ program = "script"
    /\ scriptPc \in {"staticCall", "estimateGas", "send"}
    /\ \E result \in {"ok", "reverted"} :
          LET next == afterHubCall(scriptPc, result) IN
          IF next = "wait"
          THEN /\ hubCalls' = callEnded("sent")
               /\ scriptPc' = "wait"
               /\ UNCHANGED exit
          ELSE IF next = "done" \/ (next = "estimateGas" /\ ~PRIVATE_KEY)
          THEN /\ hubCalls' = callEnded(result)
               /\ processComplete
          ELSE /\ hubCalls' = Append(callEnded(result),
                      HubCall("orderProcessor", hubMethod(script), next,
                              <<proofInHex(proofResponse.proof)>>))
               /\ scriptPc' = next
               /\ UNCHANGED exit
    /\ UNCHANGED <<script, PRIVATE_KEY, proofRequest, jobId, attempts, proofResponse, oracleCalls>>
    /\ UNCHANGED <<ledgerVars, chainVars, ticks, coverage, executorVars, listenerVars>>

\* tx.wait() resolves (the transaction is mined) or throws (it reverted)
waitReturns ==
    /\ program = "script"
    /\ scriptPc = "wait"
    /\ \E result \in {"ok", "reverted"} : hubCalls' = callEnded(result)
    /\ processComplete
    /\ UNCHANGED <<script, PRIVATE_KEY, proofRequest, jobId, attempts, proofResponse, oracleCalls>>
    /\ UNCHANGED <<ledgerVars, chainVars, ticks, coverage, executorVars, listenerVars>>

\* one of the scripts is started with its three arguments
InitScript ==
    /\ LedgerDeployed
    /\ program = "script"
    /\ startHeight = [c \in Chains |-> StartHeight]
    /\ chainLogs = {}
    /\ height = startHeight
    /\ ticks = [t \in TickIds |-> IdleTick]
    /\ coverage = [c \in Chains |-> [initial |-> -1, fetched |-> {}]]
    /\ delivered = <<>>
    /\ processedTxs = {}
    /\ pendingOrderIdsFromUnichain = {}
    /\ lastUnichainBlock = 0
    /\ lastBaseBlock = 0
    /\ relayCalls = <<>>
    /\ lastPolledBlock = -1
    /\ processedEventIds = {}
    /\ handled = <<>>
    /\ listenerPc = "off"
    /\ intervals = 0
    /\ retries = 0
    /\ script \in Scripts
    /\ PRIVATE_KEY \in BOOLEAN
    /\ scriptPc = "start"
    /\ proofRequest = NoRequest
    /\ jobId = 0
    /\ attempts = 0
    /\ proofResponse = NoResponse
    /\ oracleCalls = <<>>
    /\ hubCalls = <<>>
    /\ exit = Running

NextScript ==
    \/ scriptStart
    \/ requestProofReturns
    \/ queryProof
    \/ proofReceived
    \/ validateEventReturns
    \/ hubCallReturns
    \/ waitReturns

SpecScript == InitScript /\ [][NextScript]_vars

\* either way of relaying an event to the hub: the executor or a relay script
InitRelays == InitExecutor \/ InitScript

NextRelays == NextExecutor \/ NextScript

SpecRelays == InitRelays /\ [][NextRelays]_vars

(***************************************************************************)
(* Properties of the ledger (checked under SpecLedger)                     *)
(***************************************************************************)

\* the proof validates and decodes as an OrderCreated event
DecodesAsOrderCreated(p) ==
    p.valid /\ Len(p.topics) >= 3 /\ p.topics[1] = OrderCreatedSelector

\* the proof validates and decodes as a Confirmation event
DecodesAsConfirmation(p) ==
    p.valid /\ Len(p.topics) >= 4 /\ p.topics[1] = ConfirmationSelector

\* the step wrote no order and emitted no event
NothingWritten == orders' = orders /\ emitted' = emitted

Rejections ==
    {"validateEvent reverted", "Invalid topics length", "Invalid event signature",
     "Order already exists", "Order not in open state", "abi.decode reverted",
     "Amount mismatch between order and confirmation"}

\* C1: openOrder with a proof whose decoded id is already OPEN or COMPLETED
\* reverts with "Order already exists" and writes nothing, in every reachable
\* ledger state.
C1_OpenExistingRejected ==
    [][\A p \in Proofs :
          (/\ DecodesAsOrderCreated(p)
           /\ orders[p.topics[2]].state \in {"OPEN", "COMPLETED"}
           /\ openOrder(p))
          => (lastCall'.result = "Order already exists" /\ NothingWritten)]_vars

\* an openOrder was rejected as "already exists" while an order is COMPLETED
C1_Witness ==
    /\ lastCall = [method |-> "openOrder", result |-> "Order already exists"]
    /\ \E id \in Ids : orders[id].state = "COMPLETED"

\* C2: orderCompleted with a proof whose decoded id is NONEXISTENT or
\* COMPLETED reverts with "Order not in open state" and writes nothing.
C2_CompleteNotOpenRejected ==
    [][\A p \in Proofs :
          (/\ DecodesAsConfirmation(p)
           /\ orders[p.topics[2]].state \in {"NONEXISTENT", "COMPLETED"}
           /\ orderCompleted(p))
          => (lastCall'.result = "Order not in open state" /\ NothingWritten)]_vars

\* a second orderCompleted was rejected: one order is COMPLETED, no order is
\* OPEN, and the last call is a rejected orderCompleted
C2_Witness ==
    /\ lastCall = [method |-> "orderCompleted", result |-> "Order not in open state"]
    /\ \E id \in Ids : orders[id].state = "COMPLETED"
    /\ \A id \in Ids : orders[id].state # "OPEN"

\* C3: orderCompleted on an OPEN order with a confirmation amount different
\* from the stored amount reverts with the amount-mismatch reason and the
\* order keeps its state OPEN, amount, confirmationId and timestamp.
C3_AmountMismatchRejected ==
    [][\A p \in Proofs :
          (/\ DecodesAsConfirmation(p)
           /\ Len(p.data) >= 4
           /\ orders[p.topics[2]].state = "OPEN"
           /\ p.data[1] # orders[p.topics[2]].amount
           /\ orderCompleted(p))
          => (/\ lastCall'.result = "Amount mismatch between order and confirmation"
              /\ orders'[p.topics[2]].state = "OPEN"
              /\ orders'[p.topics[2]].amount = orders[p.topics[2]].amount
              /\ orders'[p.topics[2]].confirmationId = orders[p.topics[2]].confirmationId
              /\ orders'[p.topics[2]].timestamp = orders[p.topics[2]].timestamp)]_vars

\* an orderCompleted was rejected for its amount and an order is still OPEN
C3_Witness ==
    /\ lastCall = [method |-> "orderCompleted",
                   result |-> "Amount mismatch between order and confirmation"]
    /\ \E id \in Ids : orders[id].state = "OPEN" /\ orders[id].confirmationId = ZeroWord

\* C4: in every step the state of every order either stays, or moves
\* NONEXISTENT -> OPEN, or moves OPEN -> COMPLETED; no other move happens.
C4_StateMonotonic ==
    [][\A id \in OrderKeys :
          \/ orders'[id].state = orders[id].state
          \/ orders[id].state = "NONEXISTENT" /\ orders'[id].state = "OPEN"
          \/ orders[id].state = "OPEN" /\ orders'[id].state = "COMPLETED"]_vars

\* one order went all the way to COMPLETED while the other was only opened
C4_Witness ==
    \E id, other \in Ids :
        orders[id].state = "COMPLETED" /\ orders[other].state = "OPEN"

\* C5: once an order is not NONEXISTENT, no step changes its sourceAccount,
\* targetAccount, amount, rewardAsset, nonce or networkId.
C5_OpenFieldsImmutable ==
    [][\A id \in OrderKeys :
          orders[id].state # "NONEXISTENT"
          => (/\ orders'[id].sourceAccount = orders[id].sourceAccount
              /\ orders'[id].targetAccount = orders[id].targetAccount
              /\ orders'[id].amount = orders[id].amount
              /\ orders'[id].rewardAsset = orders[id].rewardAsset
              /\ orders'[id].nonce = orders[id].nonce
              /\ orders'[id].networkId = orders[id].networkId)]_vars

\* an order was opened and then completed by an accepted call
C5_Witness ==
    /\ lastCall = [method |-> "orderCompleted", result |-> "ok"]
    /\ \E id \in Ids : orders[id].state = "COMPLETED" /\ orders[id].amount = 200

\* C6: no step changes any field of an order that is COMPLETED.
C6_CompletedTerminal ==
    [][\A id \in OrderKeys :
          orders[id].state = "COMPLETED" => orders'[id] = orders[id]]_vars

\* every order is COMPLETED and a further ledger call on them was rejected
C6_Witness ==
    /\ \A id \in Ids : orders[id].state = "COMPLETED"
    /\ lastCall.method \in {"openOrder", "orderCompleted"}
    /\ lastCall.result \in {"Order already exists", "Order not in open state"}

\* C7: a step in which openOrder or orderCompleted is rejected leaves the
\* orders mapping as it was and emits no event.
C7_RejectWritesNothing ==
    [][(/\ lastCall'.method \in {"openOrder", "orderCompleted"}
        /\ lastCall'.result \in Rejections)
       => NothingWritten]_vars

\* a call was rejected after earlier calls had written orders and events
C7_Witness ==
    /\ lastCall.method \in {"openOrder", "orderCompleted"}
    /\ lastCall.result \in Rejections
    /\ Len(emitted) >= 1
    /\ \E id \in Ids : orders[id].state = "OPEN"

\* C8: openOrder rejects every proof whose first topic is not the
\* OrderCreated signature and orderCompleted rejects every proof whose first
\* topic is not the Confirmation signature; neither call writes anything.
C8_SignatureGate ==
    [][\A p \in Proofs :
          /\ (openOrder(p) /\ (Len(p.topics) = 0 \/ p.topics[1] # OrderCreatedSelector))
             => (lastCall'.result \in Rejections /\ NothingWritten)
          /\ (orderCompleted(p) /\ (Len(p.topics) = 0 \/ p.topics[1] # ConfirmationSelector))
             => (lastCall'.result \in Rejections /\ NothingWritten)]_vars

\* a call was rejected for its event signature while an order is OPEN
C8_Witness ==
    /\ lastCall.result = "Invalid event signature"
    /\ \E id \in Ids : orders[id].state = "OPEN"
    /\ \A id \in Ids : orders[id].state # "COMPLETED"

\* C28: a successful openOrder stores the fields of the proved event as they
\* are: afterwards getOrderInfo(id) is (OPEN, sourceAccount, targetAccount,
\* amount, rewardAsset, 0, orderTimestamp, nonce, destination topic) of the
\* proof.
C28_OpenStoresVerbatim ==
    [][\A proof \in Proofs :
          (openOrder(proof) /\ lastCall'.result = "ok")
              => getOrderInfo(proof.topics[2])' =
                     <<"OPEN", proof.data[8], proof.data[2], proof.data[3],
                       proof.data[4], ZeroWord, proof.data[9], proof.data[7],
                       proof.topics[3]>>]_vars

\* order 0xBB opened from the second payload for destination "opti"
C28_Witness ==
    /\ lastCall = [method |-> "openOrder", result |-> "ok"]
    /\ getOrderInfo(187) = <<"OPEN", 42, 22, 200, 32, ZeroWord, 20, 2, 1869640809>>

\* C29: a successful orderCompleted sets confirmationId and timestamp of the
\* order to those of the confirmation proof, and the ReclaimReady event it
\* emits last names the sourceAccount and rewardAsset stored at opening (and
\* the completion timestamp), not the accounts or asset of the confirmation.
C29_CompletionRecordsAndNotifies ==
    [][\A proof \in Proofs :
          (orderCompleted(proof) /\ lastCall'.result = "ok")
              => LET id == proof.topics[2]
                     last == emitted'[Len(emitted')]
                 IN /\ orders'[id].confirmationId = proof.data[3]
                    /\ orders'[id].timestamp = proof.data[4]
                    /\ Len(emitted') = Len(emitted) + 2
                    /\ last = [name |-> "ReclaimReady", id |-> id,
                               sourceAccount |-> orders[id].sourceAccount,
                               rewardAsset |-> orders[id].rewardAsset,
                               timestamp |-> proof.data[4]]
                    /\ last.rewardAsset # proof.data[2]
                    /\ last.sourceAccount \notin {proof.topics[3], proof.topics[4]}]_vars

\* order 0xAA, opened from the first payload, completed by the confirmation
\* that names asset 52
C29_Witness ==
    /\ lastCall = [method |-> "orderCompleted", result |-> "ok"]
    /\ orders[170].state = "COMPLETED"
    /\ orders[170].confirmationId = 62 /\ orders[170].timestamp = 40
    /\ emitted[Len(emitted)] =
           [name |-> "ReclaimReady", id |-> 170, sourceAccount |-> 41,
            rewardAsset |-> 31, timestamp |-> 40]

\* C30: orderCompleted moves an order to COMPLETED only for a proof whose
\* confirmationId equals generateConfirmationId(id, target, amount, asset,
\* sender) of the same proof.
C30_ConfirmationIdValidated ==
    [][\A proof \in Proofs :
          (orderCompleted(proof) /\ lastCall'.result = "ok"
             /\ orders'[proof.topics[2]].state = "COMPLETED")
              => proof.data[3] =
                     generateConfirmationId(proof.topics[2], proof.topics[3],
                                            proof.data[1], proof.data[2],
                                            proof.topics[4])]_vars

\* C31: openOrder creates an OPEN order only for a proof whose id topic
\* equals generateIdFull(sourceAccount, nonce, networkId) of the same proof.
C31_OrderIdVerified ==
    [][\A proof \in Proofs :
          (openOrder(proof) /\ lastCall'.result = "ok"
             /\ orders'[proof.topics[2]].state = "OPEN")
              => proof.topics[2] =
                     generateIdFull(proof.data[8], proof.data[7], proof.topics[3])]_vars

(***************************************************************************)
(* Properties of the ledger's event log (checked under SpecLedger)         *)
(***************************************************************************)

\* the positions of the event log that hold an event of the name for the id
EmissionsOf(name, id) ==
    {k \in 1..Len(emitted) : emitted[k].name = name /\ emitted[k].id = id}

\* C36: for every order id the ledger emits OrderOpened at most once,
\* OrderCompleted at most once and ReclaimReady at most once; OrderCompleted
\* and ReclaimReady are emitted together, and only after OrderOpened was
\* emitted for the same id.
C36_EventsOncePerOrder ==
    \A id \in OrderKeys :
        /\ \A name \in {"OrderOpened", "OrderCompleted", "ReclaimReady"} :
               Cardinality(EmissionsOf(name, id)) <= 1
        /\ \A k \in EmissionsOf("OrderCompleted", id) :
               /\ k + 1 \in EmissionsOf("ReclaimReady", id)
               /\ \E j \in EmissionsOf("OrderOpened", id) : j < k
        /\ \A k \in EmissionsOf("ReclaimReady", id) :
               k - 1 \in EmissionsOf("OrderCompleted", id)

\* both orders were opened and completed, and a further call was rejected
C36_Witness ==
    /\ \A id \in Ids : /\ EmissionsOf("OrderOpened", id) # {}
                       /\ EmissionsOf("ReclaimReady", id) # {}
    /\ lastCall.result \in {"Order already exists", "Order not in open state"}

(***************************************************************************)
(* Properties of the stored orders (checked under SpecLedger)              *)
(***************************************************************************)

\* C37: in every reachable ledger state, getOrderInfo returns confirmationId
\* zero for every order that is not COMPLETED (NONEXISTENT or OPEN).
C37_ConfirmationIdZeroUntilCompleted ==
    \A id \in OrderKeys :
        getOrderInfo(id)[1] # "COMPLETED" => getOrderInfo(id)[6] = ZeroWord

\* one order is COMPLETED with the confirmation id of its proof while the
\* other is OPEN
C37_Witness ==
    \E id, other \in Ids :
        /\ getOrderInfo(id)[1] = "COMPLETED"
        /\ getOrderInfo(id)[6] # ZeroWord
        /\ getOrderInfo(other)[1] = "OPEN"
        /\ getOrderInfo(other)[6] = ZeroWord

(***************************************************************************)
(* Properties of the ledger's writes (checked under SpecLedger)            *)
(***************************************************************************)

\* C38: ledger calls are local to one order: an openOrder or orderCompleted
\* whose proof decodes to id K changes no field of any order with an id
\* different from K, and authorizeSourceContract changes no order at all.
C38_CallsAreLocal ==
    [][/\ \A proof \in Proofs :
             (openOrder(proof) \/ orderCompleted(proof))
                 => \A id \in OrderKeys :
                        (Len(proof.topics) < 2 \/ id # proof.topics[2])
                            => orders'[id] = orders[id]
       /\ (\E chainId \in ChainIds, contractAddress \in SourceContracts,
              authorized \in BOOLEAN :
                  authorizeSourceContract(chainId, contractAddress, authorized))
              => orders' = orders]_vars

\* an orderCompleted call was accepted while the other order is OPEN
C38_Witness ==
    /\ lastCall = [method |-> "orderCompleted", result |-> "ok"]
    /\ \E id, other \in Ids :
          /\ id # other
          /\ orders[id].state = "COMPLETED"
          /\ orders[other].state = "OPEN"

(***************************************************************************)
(* Properties of the pollers (checked under SpecPollers)                   *)
(***************************************************************************)

\* number of callExecutorAPI calls made for a log
RelayCallsFor(log) ==
    Cardinality({k \in 1..Len(relayCalls) : relayCalls[k].log = log})

\* number of times processHubEvent logged an event
HandlingsOf(event) ==
    Cardinality({k \in 1..Len(handled) : handled[k] = event})

\* the logs a polling call of the executor has handed to its processor
DeliveredBy(t) ==
    IF ticks[t].pc = "relay" THEN SubSeq(ticks[t].logs, 1, ticks[t].i) ELSE <<>>

\* a sequence of logs is in non-decreasing (blockNumber, logIndex) order
Ascending(q) == \A a, b \in 1..Len(q) : a < b => NotAfter(q[a], q[b])

\* C9: whatever number of times a chain event (transaction, log index) is
\* fetched and delivered, by one polling call, by later ones or by
\* overlapping ones, the executor calls callExecutorAPI for it at most once
\* and the listener logs it at most once.
C9_AtMostOnce ==
    /\ \A log \in chainLogs : RelayCallsFor(log) <= 1
    /\ \A event \in chainLogs : HandlingsOf(event) <= 1

\* executor: one polling call awaits the relay of a log while an overlapping
\* polling call was handed the same log, skipped it and went on to relay a
\* later one; the log has exactly one relay call
C9_Witness ==
    \E t, u \in TickIds :
        /\ t # u
        /\ ticks[t].pc = "relay" /\ ticks[u].pc = "relay"
        /\ ticks[t].chain = ticks[u].chain
        /\ \E j \in 1..(ticks[u].i - 1) :
              /\ ticks[u].logs[j] = ticks[t].logs[ticks[t].i]
              /\ RelayCallsFor(ticks[u].logs[j]) = 1

\* listener: the last batch handed over only events that had been logged
\* before, and logged nothing again
C9_WitnessListener ==
    /\ delivered # <<>>
    /\ \A k \in 1..Len(delivered) : HandlingsOf(delivered[k]) = 1
    /\ \A k \in 1..Len(delivered) : handled[Len(handled)] # delivered[k]

\* C10: within one polling call the logs are handed to the processor in
\* non-decreasing (blockNumber, logIndex) order: by the executor's
\* pollForEvents and by the listener's pollForHubEvents.
C10_DeliveredInOrder ==
    /\ \A t \in TickIds : Ascending(DeliveredBy(t))
    /\ Ascending(delivered)

\* the listener's half of C10: pollForHubEvents sorts before it delivers
C10_ListenerDeliversInOrder == Ascending(delivered)

\* the listener was handed the events of two blocks in one batch
C10_ListenerWitness ==
    /\ Len(delivered) >= 3
    /\ blockNumber(delivered[1]) # blockNumber(delivered[Len(delivered)])

\* number of callExecutorAPI calls with a destination method made for an order id
RelayCallsOfMethod(method, id) ==
    Cardinality({k \in 1..Len(relayCalls) :
                    relayCalls[k].method = method /\ relayCalls[k].log.id = id})

\* the ids of the creation events that passed the destination filter
CreatedForBase ==
    {l.id : l \in {x \in chainLogs : /\ x.chain = "unichain"
                                     /\ x.destination = expectedBaseDestinationHexPrefix}}

\* C11: for a creation event with key K that passed the destination filter,
\* the confirmation events carrying K lead to one orderCompleted relay call
\* in total, also when a second confirmation for K, of another transaction,
\* is seen while the first relay call is awaited.
C11_OneCompletionRelay ==
    \A id \in CreatedForBase : RelayCallsOfMethod("orderCompleted", id) <= 1

\* C12: a confirmation event whose order id is not in the pending set at the
\* time it is handed to processConfirmationEvent triggers no relay call and
\* leaves the pending set as it is: the processor decides so in every
\* reachable state, and every orderCompleted call that is made is for an id
\* that is pending when it is made.  No step of the executor writes the ledger.
C12_UnknownConfirmationDropped ==
    [][/\ \A log \in {l \in chainLogs : l.chain = "base"} :
             log.id \notin pendingOrderIdsFromUnichain
             => LET r == confirmationSyncPart(log, processedTxs,
                                              pendingOrderIdsFromUnichain)
                IN ~r.relay /\ r.pending = pendingOrderIdsFromUnichain
       /\ Len(relayCalls') > Len(relayCalls)
             /\ relayCalls'[Len(relayCalls')].method = "orderCompleted"
          => relayCalls'[Len(relayCalls')].log.id \in pendingOrderIdsFromUnichain'
       /\ program = "executor" => UNCHANGED ledgerVars]_vars

\* the confirmation for an order never created was handed to the processor
\* and dropped, while the confirmation of a created order was relayed
C12_Witness ==
    /\ bC \in chainLogs
    /\ bC.tx \in processedTxs
    /\ RelayCallsFor(bC) = 0
    /\ RelayCallsFor(bA) = 1

\* C13: a creation event whose destination is not the Base identifier never
\* puts its order id into the pending set and never gets an openOrder relay
\* call.
C13_OtherDestinationIgnored ==
    \A log \in {l \in chainLogs : /\ l.chain = "unichain"
                                  /\ l.destination # expectedBaseDestinationHexPrefix} :
        /\ RelayCallsFor(log) = 0
        /\ log.id \in pendingOrderIdsFromUnichain => log.id \in CreatedForBase

\* the creation event for another destination was handed to the processor
\* and skipped, after a creation event for Base was relayed
C13_Witness ==
    /\ uD \in chainLogs
    /\ uD.tx \in processedTxs
    /\ uD.id \notin pendingOrderIdsFromUnichain
    /\ RelayCallsFor(uA) = 1

\* the relay call made by the step, if it made one
NewRelayCall == Len(relayCalls') > Len(relayCalls)

\* a relay call for the log returned without the hub accepting the transaction
FailedRelay(log) ==
    \E k \in 1..Len(relayCalls) :
        relayCalls[k].log = log /\ relayCalls[k].outcome \in {"rejected", "error"}

\* an orderCompleted relay call for the order id was accepted
CompletionAccepted(id) ==
    \E k \in 1..Len(relayCalls) :
        /\ relayCalls[k].method = "orderCompleted"
        /\ relayCalls[k].log.id = id
        /\ relayCalls[k].outcome = "accepted"

\* the watermark the interval callback keeps for a spoke chain
WatermarkOf(chain) == IF chain = "unichain" THEN lastUnichainBlock ELSE lastBaseBlock

\* C14: an order id leaves the pending set only when the orderCompleted
\* relay call for it was accepted; after a transport error or a rejected
\* execution the id stays pending.
C14_RemovedOnlyWhenAccepted ==
    [][\A id \in pendingOrderIdsFromUnichain \ pendingOrderIdsFromUnichain' :
           CompletionAccepted(id)']_vars

\* C15: a creation event whose order id is already in the pending set is
\* dropped as a duplicate: no openOrder relay call is made for it.
C15_DuplicateCreationDropped ==
    [][NewRelayCall /\ relayCalls'[Len(relayCalls')].method = "openOrder"
          => relayCalls'[Len(relayCalls')].log.id \notin pendingOrderIdsFromUnichain]_vars

\* C16: a polling call advances the watermark of its chain only over logs
\* that were all delivered successfully: no log in the blocks the watermark
\* moves over has a relay call that failed.
C16_WatermarkAfterDelivery ==
    [][\A chain \in {"unichain", "base"} :
           WatermarkOf(chain)' > WatermarkOf(chain)
           => \A log \in logsInRange(chain, WatermarkOf(chain) + 1, WatermarkOf(chain)') :
                  ~FailedRelay(log)']_vars

\* every log a spoke contract may emit
SpokeLogs == UNION SpokeContents

\* a relay call for the log failed in transport: axios threw
TransientFailure(log) ==
    \E k \in 1..Len(relayCalls) :
        relayCalls[k].log = log /\ relayCalls[k].outcome = "error"

\* C17: the relay delivers at least once: a relay call for an event that
\* failed for a transient reason is followed, on a later polling call, by
\* another relay call for the same event.
C17_FailedRelayRetried ==
    \A log \in SpokeLogs :
        [](TransientFailure(log) => <>(RelayCallsFor(log) >= 2))

\* the step is polling call t of the executor abandoning its tick: its
\* getBlockNumber or getLogs threw (or there was no new block) and
\* pollForEvents returns the lastProcessedBlock it was called with
SpokeFetchFails(t) ==
    /\ program = "executor"
    /\ ticks[t].pc \in {"getBlockNumber", "getLogs"}
    /\ pollReturns(t, ticks[t].lastProcessedBlock)

\* the watermark of a spoke chain after the step
WatermarkAfter(chain) == IF chain = "unichain" THEN lastUnichainBlock' ELSE lastBaseBlock'

\* C18: when getBlockNumber or the log fetch of a polling call of the
\* executor fails, the call delivers nothing and the watermark of its chain
\* is, after the step, what it was before it, so that the next polling call
\* fetches from the same block again.
C18_FailedTickKeepsWatermark ==
    [][\A t \in TickIds :
           SpokeFetchFails(t)
           => /\ relayCalls' = relayCalls
              /\ processedTxs' = processedTxs
              /\ WatermarkAfter(ticks[t].chain) = WatermarkOf(ticks[t].chain)]_vars

\* what does hold of a failed fetch of the executor: nothing is delivered and
\* the watermark becomes the value the polling call read when it started
C18_FailedTickRestoresWatermark ==
    [][\A t \in TickIds :
           SpokeFetchFails(t)
           => /\ relayCalls' = relayCalls
              /\ processedTxs' = processedTxs
              /\ WatermarkAfter(ticks[t].chain) = ticks[t].lastProcessedBlock]_vars

\* the executor has been started and no polling call has run yet
ExecutorJustStarted ==
    /\ program = "executor"
    /\ \A t \in TickIds : ticks[t] = IdleTick
    /\ processedTxs = {} /\ relayCalls = <<>>
    /\ lastUnichainBlock = startHeight["unichain"]
    /\ lastBaseBlock = startHeight["base"]

\* C19: the first polling call after a start, at current height h, scans
\* from block max(0, h - 100) + 1: the executor's first call for Unichain
\* is given the watermark max(0, h - 100), and the listener's start sets
\* lastPolledBlock to max(0, h - 100) before its first poll.
C19_FirstTickScansWindow ==
    [][/\ ExecutorJustStarted /\ ticks'[1].pc = "getBlockNumber"
          => ticks'[1].lastProcessedBlock = catchUpStart(height["unichain"])
       /\ listenerPc = "getBlockNumber" /\ listenerPc' = "initialPoll"
          => lastPolledBlock' = catchUpStart(height["hub"])]_vars

\* the listener's half of C19: it never handles an event of a block at or
\* before max(0, h - 100), h being the height at its start
C19_ListenerScansWindow ==
    \A k \in 1..Len(handled) :
        blockNumber(handled[k]) > catchUpStart(startHeight["hub"])

\* a listener started at height 1000 handled the event of block 999 and not
\* the event of block 800
C19_ListenerWitness ==
    /\ startHeight["hub"] = 1000
    /\ \E k \in 1..Len(handled) : blockNumber(handled[k]) = 999
    /\ lastPolledBlock >= 1000

\* C20: the dedup set suppresses an event only when that very event
\* (transaction id and log index) was delivered before, never a sibling
\* event of the same transaction: a creation event for Base that the
\* executor's dedup set suppresses has had its relay call, and a hub event
\* that the listener's dedup set suppresses has been handled.
C20_SiblingsNotSuppressed ==
    /\ \A log \in {l \in chainLogs : /\ l.chain = "unichain"
                                     /\ l.destination = expectedBaseDestinationHexPrefix} :
           alreadyProcessedTx(log, processedTxs) => RelayCallsFor(log) >= 1
    /\ \A event \in {l \in chainLogs : l.chain = "hub"} :
           alreadyProcessedEvent(event, processedEventIds) => HandlingsOf(event) >= 1

\* the listener's half of C20: its key is transaction id and log index
C20_ListenerSiblingsNotSuppressed ==
    \A event \in {l \in chainLogs : l.chain = "hub"} :
        alreadyProcessedEvent(event, processedEventIds) => HandlingsOf(event) >= 1

\* the listener handled both events of transaction h2
C20_ListenerWitness ==
    \E a, b \in 1..Len(handled) :
        /\ a # b
        /\ handled[a].tx = handled[b].tx
        /\ handled[a].index # handled[b].index

(***************************************************************************)
(* Properties of a polling call that finds no new block                    *)
(***************************************************************************)

\* the step is polling call t comparing the height it read with the
\* watermark it compares with (pollForEvents: its lastProcessedBlock
\* argument; pollForHubEvents: lastPolledBlock), and the height is not greater
NoNewBlock(t) ==
    /\ ticks[t].pc = "getBlockNumber"
    /\ ticks'[t] # ticks[t]
    /\ IF program = "executor"
       THEN height[ticks[t].chain] <= ticks[t].lastProcessedBlock
       ELSE lastPolledBlock # -1 /\ height["hub"] <= lastPolledBlock

\* C32: a polling call on which the current height is not greater than the
\* watermark fetches no logs, delivers no event, issues no relay call and
\* leaves the watermark, the dedup set and the pending set unchanged.
C32_NoNewBlockIsNoOp ==
    [][\A t \in TickIds :
           NoNewBlock(t)
           => /\ ticks'[t].pc \notin {"getLogs", "queryFilter", "relay"}
              /\ relayCalls' = relayCalls
              /\ delivered' = delivered
              /\ handled' = handled
              /\ processedTxs' = processedTxs
              /\ processedEventIds' = processedEventIds
              /\ pendingOrderIdsFromUnichain' = pendingOrderIdsFromUnichain
              /\ lastPolledBlock' = lastPolledBlock
              /\ program = "executor"
                     => WatermarkAfter(ticks[t].chain) = WatermarkOf(ticks[t].chain)]_vars

\* what does hold of such a polling call: it fetches and delivers nothing,
\* and the executor's watermark becomes the value the call was started with
C32_NoNewBlockFetchesNothing ==
    [][\A t \in TickIds :
           NoNewBlock(t)
           => /\ ticks'[t].pc \notin {"getLogs", "queryFilter", "relay"}
              /\ relayCalls' = relayCalls
              /\ delivered' = delivered
              /\ handled' = handled
              /\ processedTxs' = processedTxs
              /\ processedEventIds' = processedEventIds
              /\ pendingOrderIdsFromUnichain' = pendingOrderIdsFromUnichain
              /\ lastPolledBlock' = lastPolledBlock
              /\ program = "executor"
                     => WatermarkAfter(ticks[t].chain) = ticks[t].lastProcessedBlock]_vars

(***************************************************************************)
(* Properties of the watermarks                                            *)
(***************************************************************************)

\* C33: the watermark of each poller never decreases, also when polling
\* calls overlap: the value a call writes is never lower than the value
\* already stored.
C33_WatermarkNeverDecreases ==
    [][/\ lastUnichainBlock' >= lastUnichainBlock
       /\ lastBaseBlock' >= lastBaseBlock
       /\ lastPolledBlock' >= lastPolledBlock]_vars

\* the executor's half of C33
C33_ExecutorWatermarkNeverDecreases ==
    [][/\ lastUnichainBlock' >= lastUnichainBlock
       /\ lastBaseBlock' >= lastBaseBlock]_vars

\* the listener's half of C33
C33_ListenerWatermarkNeverDecreases ==
    [][lastPolledBlock' >= lastPolledBlock]_vars

(***************************************************************************)
(* Properties of the block coverage                                        *)
(***************************************************************************)

\* every block above the chain's first watermark and up to the given one was
\* in the range of a log fetch that resolved
Covered(chain, watermark) ==
    \A b \in (coverage[chain].initial + 1)..watermark : b \in coverage[chain].fetched

\* C34: block coverage has no gaps: every block above a poller's initial
\* watermark and at or below its current watermark was in the range of some
\* log fetch that completed without error, whatever the interleaving of
\* polling calls and the pattern of RPC failures.
C34_NoGaps ==
    /\ program = "executor"
           => Covered("unichain", lastUnichainBlock) /\ Covered("base", lastBaseBlock)
    /\ (program = "listener" /\ lastPolledBlock # -1) => Covered("hub", lastPolledBlock)

\* the executor's Unichain watermark is past both mined blocks while an
\* earlier polling call, started from a lower watermark, is still open
C34_Witness ==
    /\ program = "executor"
    /\ lastUnichainBlock = coverage["unichain"].initial + MaxMined
    /\ \E t \in TickIds : /\ ticks[t].chain = "unichain"
                          /\ ticks[t].pc \in {"getLogs", "relay"}
                          /\ ticks[t].lastProcessedBlock < lastUnichainBlock

\* the listener's watermark is past both mined blocks
C34_ListenerWitness ==
    /\ program = "listener"
    /\ lastPolledBlock = height["hub"]
    /\ height["hub"] = startHeight["hub"] + MaxMined

(***************************************************************************)
(* Properties of the order of the relay calls                              *)
(***************************************************************************)

\* C35: for every order id, the executor issues the orderCompleted relay
\* call only after the openOrder relay call for the same id has returned: no
\* interleaving of overlapping polling calls lets a Confirmation for the id
\* be relayed while the open relay is still awaited.
C35_CompletedAfterOpenReturned ==
    \A k \in 1..Len(relayCalls) :
        relayCalls[k].method = "orderCompleted"
            => \E j \in 1..(k - 1) :
                  /\ relayCalls[j].method = "openOrder"
                  /\ relayCalls[j].log.id = relayCalls[k].log.id
                  /\ relayCalls[j].outcome # "awaited"

\* what does hold: the openOrder relay call for the id was issued before
C35_CompletedAfterOpenIssued ==
    \A k \in 1..Len(relayCalls) :
        relayCalls[k].method = "orderCompleted"
            => \E j \in 1..(k - 1) :
                  /\ relayCalls[j].method = "openOrder"
                  /\ relayCalls[j].log.id = relayCalls[k].log.id

(***************************************************************************)
(* Properties of the listener's timers (checked under SpecListener)        *)
(***************************************************************************)

\* C40: the hub listener schedules at most one periodic polling interval,
\* whatever number of times startHubListener retries after a failed
\* initialization: each failed attempt schedules exactly one retry, and
\* setInterval is reached only on the attempt that succeeds, after which no
\* further retry is scheduled.
C40_OneInterval ==
    [][/\ intervals' <= 1
       /\ intervals' = 1 <=> listenerPc' = "running"
       /\ retries' \in {retries, retries + 1}
       /\ retries' = retries + 1
              <=> (listenerPc \in {"start", "getBlockNumber"}
                       /\ listenerPc' = "retryWait")
       /\ intervals' # intervals
              => (listenerPc = "initialPoll" /\ listenerPc' = "running")
       /\ listenerPc = "running"
              => (listenerPc' = "running" /\ retries' = retries)]_vars

\* the interval was set on the attempt that followed MaxRetries failed
\* attempts, and polling calls have run since
C40_Witness ==
    /\ listenerPc = "running"
    /\ intervals = 1
    /\ retries = MaxRetries
    /\ lastPolledBlock = height["hub"]
    /\ height["hub"] > startHeight["hub"]

(***************************************************************************)
(* Properties of the relay scripts (checked under SpecScript)              *)
(***************************************************************************)

\* the posts of log_queryProof among the first n oracle calls
RECURSIVE QueriesIn(_, _)
QueriesIn(calls, n) ==
    IF n = 0 THEN 0
    ELSE QueriesIn(calls, n - 1) + (IF calls[n].method = "log_queryProof" THEN 1 ELSE 0)

QueryCount == QueriesIn(oracleCalls, Len(oracleCalls))

ProofTimeout == [code |-> 1, error |-> "Failed to get proof after maximum attempts"]

\* C21: the polling loop queries the oracle at most 30 times, always for the
\* job the request returned; once a response carried a proof no further
\* query is made; and when 30 queries brought no proof the script ends with
\* the timeout error, having made no call to the hub chain.
C21_PollingBounded ==
    [][/\ QueriesIn(oracleCalls', Len(oracleCalls')) <= maxAttempts
       /\ \A i \in 1..Len(oracleCalls') :
             oracleCalls'[i].method = "log_queryProof"
                 => oracleCalls'[i].jobId = proofRequest'.result
       /\ hasProof(proofResponse) => oracleCalls' = oracleCalls
       /\ (scriptPc = "polling" /\ ~hasProof(proofResponse) /\ QueryCount = maxAttempts)
             => exit' = ProofTimeout /\ hubCalls' = <<>>
       /\ exit' = ProofTimeout
             => /\ QueriesIn(oracleCalls', Len(oracleCalls')) = maxAttempts
                /\ ~hasProof(proofResponse')
                /\ hubCalls' = <<>>]_vars

C21_Witness ==
    /\ exit = ProofTimeout
    /\ QueryCount = maxAttempts
    /\ hubCalls = <<>>

\* the proof the oracle issued is what the call carries
CarriesIssuedProof(call) ==
    /\ Len(call.args) = 1
    /\ call.args[1].prefix = "0x"
    /\ \E blob \in ProofBlobs :
          /\ base64Encode(blob) = proofResponse.proof
          /\ hexDigitsToBytes(call.args[1].digits) = blob

RequestFailed ==
    /\ Len(oracleCalls) >= 1
    /\ scriptPc # "requestProof"
    /\ \/ proofRequest.threw
       \/ proofRequest.status # 200
       \/ ~proofRequest.data
       \/ proofRequest.result = 0

\* C24: when the proof request fails (the post throws, the status is not
\* 200, or the response holds no job id) the script has exited with code 1,
\* having posted no proof-status query and made no call to the hub chain.
C24_FailedRequestStops ==
    RequestFailed
        => /\ scriptPc = "exited"
           /\ exit.code = 1
           /\ QueryCount = 0
           /\ hubCalls = <<>>

C24_Witness ==
    /\ RequestFailed
    /\ proofRequest.status = 204
    /\ scriptPc = "exited"

(***************************************************************************)
(* Properties of the hub transaction (checked under SpecScript)            *)
(***************************************************************************)

\* the calls of the kind that the script made to the OrderProcessor
HubCallsOfKind(kind) ==
    {k \in 1..Len(hubCalls) :
        hubCalls[k].contract = "orderProcessor" /\ hubCalls[k].kind = kind}

\* C39: the state-changing hub transaction is sent only after the static
\* call of the same method with the same proof succeeded; when the static
\* call reverts, or PRIVATE_KEY is missing, no transaction is sent.
C39_SentOnlyAfterStaticCall ==
    /\ \A k \in HubCallsOfKind("send") :
          \E j \in HubCallsOfKind("staticCall") :
              /\ j < k
              /\ hubCalls[j].method = hubCalls[k].method
              /\ hubCalls[j].args = hubCalls[k].args
              /\ hubCalls[j].result = "ok"
    /\ (\E j \in HubCallsOfKind("staticCall") : hubCalls[j].result = "reverted")
           => HubCallsOfKind("send") = {}
    /\ ~PRIVATE_KEY => HubCallsOfKind("send") = {} /\ HubCallsOfKind("estimateGas") = {}

\* the transaction was sent and mined, after the static call
C39_Witness ==
    /\ PRIVATE_KEY
    /\ scriptPc = "exited"
    /\ \E k \in HubCallsOfKind("send"), j \in HubCallsOfKind("staticCall") :
          j < k /\ hubCalls[k].result = "ok" /\ hubCalls[j].result = "ok"

\* the static call succeeded, PRIVATE_KEY is missing and the script ended
C39_NoKeyWitness ==
    /\ ~PRIVATE_KEY
    /\ scriptPc = "exited"
    /\ \E j \in HubCallsOfKind("staticCall") : hubCalls[j].result = "ok"

\* the static call reverted and the script ended
C39_RevertedWitness ==
    /\ scriptPc = "exited"
    /\ \E j \in HubCallsOfKind("staticCall") : hubCalls[j].result = "reverted"

(***************************************************************************)
(* Properties of both relays (checked under SpecRelays)                    *)
(***************************************************************************)

\* C23: a rejected hub invocation is not repeated.  In a relay script a
\* reverted call is the last call the script makes, and the script has
\* ended; in the executor an event whose relay call was answered with an
\* unsuccessful execution has that one relay call only.
C23_RejectedNotRetried ==
    /\ \A i \in 1..Len(hubCalls) :
          hubCalls[i].result = "reverted"
              => i = Len(hubCalls) /\ scriptPc = "exited"
    /\ \A i \in 1..Len(relayCalls) :
          relayCalls[i].outcome = "rejected"
              => Cardinality({ j \in 1..Len(relayCalls) :
                                 relayCalls[j].log = relayCalls[i].log }) = 1

\* the relay of uA was rejected and polling went on past its block
C23_Witness ==
    /\ \E i \in 1..Len(relayCalls) :
          relayCalls[i].log = uA /\ relayCalls[i].outcome = "rejected"
    /\ \A t \in TickIds : ticks[t].pc = "idle"
    /\ lastUnichainBlock = startHeight["unichain"] + MaxMined

\* the transaction of a relay script reverted
C23_ScriptWitness ==
    /\ scriptPc = "exited"
    /\ \E i \in 1..Len(hubCalls) :
          hubCalls[i].kind = "send" /\ hubCalls[i].result = "reverted"

(***************************************************************************)
(* Properties of the executor's scheduling                                 *)
(***************************************************************************)

\* the relay call of the first callback, for an event of the chain, never
\* returns
StalledOn(chain) == <>[](ticks[1].pc = "relay" /\ ticks[1].chain = chain)

\* every mined log of the chain ends up handed to its processor
AllProcessed(chain) ==
    \A l \in SpokeLogs :
        l.chain = chain
            => <>[]((l \in chainLogs /\ height[chain] >= blockNumber(l))
                        => l.tx \in processedTxs)

\* C25: when the relay call started for a Unichain OrderCreated event never
\* returns, every Confirmation event mined on Base is still fetched and
\* handed to processConfirmationEvent by later interval callbacks; and when
\* the relay call of a Base Confirmation never returns, every OrderCreated
\* event mined on Unichain is still processed.
C25_StallDoesNotBlock ==
    /\ StalledOn("unichain") => AllProcessed("base")
    /\ StalledOn("base") => AllProcessed("unichain")

\* the relay of uA is still awaited and a Confirmation was relayed meanwhile
C25_Witness ==
    /\ ticks[1].pc = "relay" /\ ticks[1].chain = "unichain"
    /\ Len(relayCalls) >= 2
    /\ relayCalls[1].outcome = "awaited"
    /\ \E j \in 2..Len(relayCalls) :
          relayCalls[j].log.chain = "base" /\ relayCalls[j].outcome = "accepted"

\* C26: a fault in the Unichain pipeline does not stop the Base pipeline.
\* Whenever a callback leaves its Unichain poll, however the poll ended
\* (RPC failure, failed relay, success), the same callback goes on to the
\* Base poll; and while the executor runs a further interval callback can
\* always start.
C26_FaultDoesNotHalt ==
    [][/\ \A t \in TickIds :
             (ticks[t].chain = "unichain" /\ ticks'[t].chain # "unichain")
                 => ticks'[t].chain = "base" /\ ticks'[t].pc = "getBlockNumber"
       /\ \A t \in TickIds :
             SpokeFetchFails(t) /\ ticks[t].chain = "unichain"
                 => ticks'[t].chain = "base"
       /\ (program = "executor" /\ \E t \in TickIds : ticks[t].pc = "idle")
             => ENABLED (\E t \in TickIds : startTick(t))]_vars

\* the relay of uA failed and the same run relays a Confirmation from Base
C26_Witness ==
    /\ \E i \in 1..Len(relayCalls) :
          relayCalls[i].log = uA /\ relayCalls[i].outcome = "error"
    /\ \E t \in TickIds : ticks[t].chain = "base" /\ ticks[t].pc = "relay"

(***************************************************************************)
(* End to end (checked under SpecEndToEnd)                                 *)
(***************************************************************************)

\* order 0xAA is created once (uA, destination Base, amount 100) and
\* confirmed once (bA, amount 100)
OneCreationOneConfirmation == chainLogs = {uA, uB, bA}

\* the creation was handed to its processor and relayed, and the
\* confirmation, handed to its processor while the id was pending, too
CreationThenConfirmationObserved ==
    /\ OneCreationOneConfirmation
    /\ RelayCallsFor(uA) >= 1
    /\ RelayCallsFor(bA) >= 1

\* C27: when the creation of order 0xAA for Base with amount 100 was
\* observed and then its confirmation with amount 100, and neither the
\* oracle nor the hub fails, the ledger entry of 0xAA becomes OPEN with
\* amount 100 and in the end COMPLETED, and 0xAA leaves the pending set.
C27_EndToEnd ==
    /\ [](OneCreationOneConfirmation /\ RelayCallsFor(uA) >= 1
            => <>(orders[170].state # "NONEXISTENT" /\ orders[170].amount = 100))
    /\ [](CreationThenConfirmationObserved
            => <>(/\ orders[170].state = "COMPLETED"
                  /\ orders[170].amount = 100
                  /\ 170 \notin pendingOrderIdsFromUnichain))

\* the run in which the two relays follow one another
C27_CompletedReached ==
    /\ CreationThenConfirmationObserved
    /\ orders[170].state = "COMPLETED"
    /\ 170 \notin pendingOrderIdsFromUnichain

====
